---- MODULE Spec2Model ----
(***************************************************************************)
(* A model of subscene-dl: the HTML extractors of subscene/htmlparse.py,   *)
(* the title resolver (cli.match_title, Subscene._match_movie), the        *)
(* subtitle filters and the byte decoders of subscene/cli.py and           *)
(* subscene/api.py, the stages of cli.download, the language argument      *)
(* (cli.arg_language), Subscene.download and the event handlers of the     *)
(* legacy utils.MoviePageParser.                                           *)
(*                                                                         *)
(* Python strings are sequences of one-character strings, so that the      *)
(* regular expressions, str.lower() and the `in` substring test of the     *)
(* source are computed character by character.  A call that raises is a    *)
(* result record whose kind names the exception.                           *)
(***************************************************************************)
EXTENDS Integers, Sequences, FiniteSets, TLC

VARIABLES
    html,        \* the document handed to a parser of htmlparse.py
    parsed,      \* outcome of parse() of each parser on the document
    title,       \* query title given to the resolver
    year,        \* query year given to the resolver
    results,     \* search result set: category -> list of title records
    matched,     \* outcome of the last resolver call
    subtitles,   \* subtitle records of a title page, in page order
    tags,        \* release tags given to filter_by_tags
    min_rating,  \* min_rating given to filter_by_rating
    filtered,    \* outcome of the last filter call
    blob,        \* bytes of a subtitle file
    archive,     \* files of a subtitle zip archive: name and bytes of each
    language_code, \* ISO 639-1 code of the subtitle language
    decoded,     \* outcome of the last decoding call
    pc,          \* the stage cli.download is at
    requests,    \* the HTTP requests issued so far, in order
    outcome,     \* how cli.download ended, once it has
    output_file, \* the output file: whether it was created, and its content
    argument,    \* the string given to cli.arg_language
    language,    \* outcome of the last call of arg_language
    subtitle_url, \* the subtitle page URL given to Subscene.download
    source,      \* utils.MoviePageParser: self.source, the release type asked for
    location,    \* utils.MoviePageParser: self.location
    self_subtitle, \* utils.MoviePageParser: self.subtitle (url, rating, name)
    row,         \* number of <tr> start tags fed to the MoviePageParser so far
    origin,      \* the row each field of self.subtitle was read in
    raised       \* the exception a handler of the MoviePageParser raised, if any

parseVars   == <<html, parsed>>
resolveVars == <<title, year, results, matched>>
selectVars  == <<subtitles, tags, min_rating, filtered>>
decodeVars  == <<blob, archive, language_code, decoded>>
downloadVars == <<pc, requests, outcome, output_file>>
languageVars == <<argument, language>>
legacyVars  == <<source, location, self_subtitle, row, origin, raised>>
vars        == <<html, parsed, title, year, results, matched,
                 subtitles, tags, min_rating, filtered,
                 blob, archive, language_code, decoded,
                 pc, requests, outcome, output_file,
                 argument, language, subtitle_url,
                 source, location, self_subtitle, row, origin, raised>>

(***************************************************************************)
(* Strings                                                                 *)
(***************************************************************************)
UpperChars == <<"A","B","C","D","E","F","G","H","I","J","K","L","M",
                "N","O","P","Q","R","S","T","U","V","W","X","Y","Z">>
LowerChars == <<"a","b","c","d","e","f","g","h","i","j","k","l","m",
                "n","o","p","q","r","s","t","u","v","w","x","y","z">>
Digits     == {"0","1","2","3","4","5","6","7","8","9"}

\* str.lower() of one character
LowerChar(c) ==
    IF \E i \in 1..Len(UpperChars) : UpperChars[i] = c
    THEN LowerChars[CHOOSE i \in 1..Len(UpperChars) : UpperChars[i] = c]
    ELSE c

\* str.lower()
Lower(s) == [i \in 1..Len(s) |-> LowerChar(s[i])]

\* needle in hay
Contains(hay, needle) ==
    \E i \in 0..(Len(hay) - Len(needle)) :
        SubSeq(hay, i + 1, i + Len(needle)) = needle

\* the control characters U+000B and U+001C to U+001F
VerticalTab     == ""
FileSeparator   == ""
GroupSeparator  == ""
RecordSeparator == ""
UnitSeparator   == ""

\* \s of the re module on str, and the white space of str.strip(), among the
\* ASCII characters
IsSpace(c) == c \in {" ", "\t", "\n", "\r", "\f", VerticalTab,
                     FileSeparator, GroupSeparator, RecordSeparator, UnitSeparator}

SetMax(S) == CHOOSE x \in S : \A y \in S : y <= x
SetMin(S) == CHOOSE x \in S : \A y \in S : x <= y

\* all sequences over S of length at most n
SeqsUpTo(S, n) == UNION {[1..k -> S] : k \in 0..n}

(***************************************************************************)
(* Results of a call: what it returned, or the exception it raised         *)
(***************************************************************************)
Ok(v)    == [kind |-> "ok", value |-> v]
None     == [kind |-> "None", value |-> <<>>]
Raise(e) == [kind |-> e, value |-> <<>>]

\* the record a variable keeps of the call `o` that ended as `r`
Call(o, r) == [op |-> o, kind |-> r.kind, value |-> r.value]
NotRun     == [op |-> "none", kind |-> "none", value |-> <<>>]

(***************************************************************************)
(* HTML extractors (subscene/htmlparse.py)                                 *)
(*                                                                         *)
(* A document is a record of what the parsers read from it:                *)
(*   text      the characters THROTTLE_PATTERN is searched in              *)
(*   sections  what self._sections.parse gives: for each of the keys     *)
(*             exact, close and popular the <ul> elements that follow an   *)
(*             element of that class, each as the list of its <li> items;  *)
(*             the list of an absent category is empty                     *)
(*   empty     text of each td.empty cell of the subtitle table            *)
(*   rows      td.a1 cells: link target, last span text, first span class  *)
(*   download  link target of each anchor under .download                  *)
(***************************************************************************)
MaxItems   == 2    \* most items of a category list of a search page
MaxRows    == 2    \* most td.a1 rows of a title page
MaxAnchors == 2    \* most download anchors of a subtitle page
MaxMarkers == 2    \* most td.empty cells of a title page

BASE_URL == "https://subscene.com"

Parsers == {"TitleSearchResultsParser", "TitlePageParser", "SubtitlePageParser"}

\* s[i..] starts with the lower-case word w when case is ignored
WordAt(s, i, w) ==
    /\ i >= 1
    /\ i + Len(w) - 1 <= Len(s)
    /\ \A k \in 1..Len(w) : LowerChar(s[i + k - 1]) = w[k]

\* no newline in s[a..b]: what (.+?) and (.*?) can span
NoNewline(s, a, b) == \A i \in a..b : s[i] # "\n"

\* THROTTLE_PATTERN.search with re.IGNORECASE dropped
throttled_cased(s) ==
    \E i \in 1..Len(s) :
        /\ i + 1 <= Len(s) /\ SubSeq(s, i, i + 1) = <<"T", "o">>
        /\ \E j \in (i + 3)..Len(s) :
              /\ j + 3 <= Len(s) /\ SubSeq(s, j, j + 3) = <<"m", "a", "n", "y">>
              /\ NoNewline(s, i + 2, j - 1)
              /\ \E k \in (j + 5)..Len(s) :
                    /\ k + 7 <= Len(s) /\ SubSeq(s, k, k + 7) = <<"r", "e", "q", "u", "e", "s", "t", "s">>
                    /\ NoNewline(s, j + 4, k - 1)

\* BaseParser.THROTTLE_PATTERN.search(html): r"Too?.+?many.+?requests" with
\* re.IGNORECASE.  "To" at i, "many" at j, "requests" at k; o? may take nothing,
\* so each gap is at least one character other than a newline
throttled(s) ==
    \E i \in 1..Len(s) :
        /\ WordAt(s, i, <<"t", "o">>)
        /\ \E j \in (i + 3)..Len(s) :
              /\ WordAt(s, j, <<"m", "a", "n", "y">>)
              /\ NoNewline(s, i + 2, j - 1)
              /\ \E k \in (j + 5)..Len(s) :
                    /\ WordAt(s, k, <<"r", "e", "q", "u", "e", "s", "t", "s">>)
                    /\ NoNewline(s, j + 4, k - 1)

\* BaseParser._parse_errors: the exception raised, or None
_parse_errors(h) ==
    IF throttled(h.text) THEN Raise("TooManyRequestsError") ELSE None

\* str.strip(): without the white space at both ends
strip(s) ==
    LET I == {i \in 1..Len(s) : ~IsSpace(s[i])}
    IN  IF I = {} THEN <<>> ELSE SubSeq(s, SetMin(I), SetMax(I))

\* re.sub(r"\r?\n", " ", s), from position i
RECURSIVE newlines_to_spaces(_, _)
newlines_to_spaces(s, i) ==
    IF i > Len(s)
    THEN <<>>
    ELSE IF s[i] = "\n"
    THEN <<" ">> \o newlines_to_spaces(s, i + 1)
    ELSE IF s[i] = "\r" /\ i < Len(s) /\ s[i + 1] = "\n"
    THEN <<" ">> \o newlines_to_spaces(s, i + 2)
    ELSE <<s[i]>> \o newlines_to_spaces(s, i + 1)

\* the end of the run of white space that starts at i
RunEnd(s, i) == SetMax({j \in i..Len(s) : \A k \in i..j : IsSpace(s[k])})

\* re.sub(r"\s{2,}", " ", s), from position i
RECURSIVE collapse_spaces(_, _)
collapse_spaces(s, i) ==
    IF i > Len(s)
    THEN <<>>
    ELSE IF IsSpace(s[i]) /\ RunEnd(s, i) > i
    THEN <<" ">> \o collapse_spaces(s, RunEnd(s, i) + 1)
    ELSE <<s[i]>> \o collapse_spaces(s, i + 1)

\* BaseParser._strip
_strip(s) == collapse_spaces(newlines_to_spaces(strip(s), 1), 1)

\* the rating words of the pattern of _parse_rating
RatingWords == { <<"p", "o", "s", "i", "t", "i", "v", "e">>, <<"n", "e", "u", "t", "r", "a", "l">>, <<"b", "a", "d">> }

\* s[p..] starts with (positive|neutral|bad)-icon, case ignored
IconAt(s, p) == \E w \in RatingWords : WordAt(s, p, w \o <<"-", "i", "c", "o", "n">>)
IconWord(s, p) == CHOOSE w \in RatingWords : WordAt(s, p, w \o <<"-", "i", "c", "o", "n">>)

\* where the (positive|neutral|bad) group of a match of the pattern that
\* starts at b begins: the lazy .*? stops at the first place -icon follows
IconsFrom(s, b) == {p \in b..Len(s) : IconAt(s, p) /\ NoNewline(s, b, p - 1)}

\* pattern.sub(r"\1", s) from position b: each match, from the left, is
\* replaced by its group; the characters no match covers are kept
RECURSIVE rating_sub(_, _)
rating_sub(s, b) ==
    LET B == {c \in b..Len(s) : IconsFrom(s, c) # {}}
    IN  IF B = {}
        THEN SubSeq(s, b, Len(s))
        ELSE LET c == SetMin(B)
                 p == SetMin(IconsFrom(s, c))
                 n == Len(IconWord(s, p))
             IN  SubSeq(s, b, c - 1) \o SubSeq(s, p, p + n - 1)
                    \o rating_sub(s, p + n + 5)

\* TitlePageParser._parse_rating
_parse_rating(rating_class) ==
    IF IconsFrom(rating_class, 1) = {}
    THEN Raise("ParsingError")
    ELSE Ok(rating_sub(rating_class, 1))

\* xextract Url: the link target joined to the base URL
urljoin(base, href) == [base |-> base, href |-> href]

\* the Group _movies on the <ul> of a category: url and title of each <li>
movies(items, base_url) ==
    [i \in 1..Len(items) |-> [url   |-> urljoin(base_url, items[i].href),
                              title |-> _strip(items[i].text)]]

\* TitleSearchResultsParser.parse with a key for every category, the list of
\* an absent one empty
TitleSearchResultsParser_parse_all_keys(h, base_url) ==
    IF _parse_errors(h).kind # "None"
    THEN _parse_errors(h)
    ELSE Ok([key \in DOMAIN h.sections |->
                IF Len(h.sections[key]) > 0
                THEN movies(h.sections[key][1], base_url)
                ELSE <<>>])

\* TitleSearchResultsParser.parse: a key for each section that is not empty,
\* with the movies of section[0]
TitleSearchResultsParser_parse(h, base_url) ==
    IF _parse_errors(h).kind # "None"
    THEN _parse_errors(h)
    ELSE LET found == {key \in DOMAIN h.sections : Len(h.sections[key]) > 0}
         IN  Ok([key \in found |-> movies(h.sections[key][1], base_url)])

\* the Group _rows (quant "+") from row i: url, name and rating of each td.a1
RECURSIVE rows_from(_, _, _, _)
rows_from(rows, i, base_url, acc) ==
    IF i > Len(rows)
    THEN Ok(acc)
    ELSE LET rating == _parse_rating(rows[i].class)
         IN  IF rating.kind # "ok"
             THEN rating
             ELSE rows_from(rows, i + 1, base_url,
                            Append(acc, [url    |-> urljoin(base_url, rows[i].href),
                                         name   |-> _strip(rows[i].name),
                                         rating |-> rating.value]))

\* self._rows.parse(self.html, url=base_url)
rows_parse(h, base_url) ==
    IF Len(h.rows) = 0
    THEN Raise("ParsingError")
    ELSE rows_from(h.rows, 1, base_url, <<>>)

\* self._empty.parse(self.html): String with quant "?"
empty_parse(h) ==
    CASE Len(h.empty) = 0 -> None
      [] Len(h.empty) = 1 -> Ok(h.empty[1])
      [] OTHER            -> Raise("ParsingError")

\* TitlePageParser.parse with the no-results marker read before _parse_errors
TitlePageParser_parse_marker_first(h, base_url) ==
    IF empty_parse(h).kind = "ParsingError"
    THEN empty_parse(h)
    ELSE IF empty_parse(h).kind = "ok" /\ empty_parse(h).value # <<>>
    THEN Ok(<<>>)
    ELSE IF _parse_errors(h).kind # "None"
    THEN _parse_errors(h)
    ELSE rows_parse(h, base_url)

\* TitlePageParser.parse with the rows enumerated before the no-results
\* marker is read
TitlePageParser_parse_rows_first(h, base_url) ==
    IF _parse_errors(h).kind # "None"
    THEN _parse_errors(h)
    ELSE IF Len(h.rows) > 0
    THEN rows_parse(h, base_url)
    ELSE IF empty_parse(h).kind = "ParsingError"
    THEN empty_parse(h)
    ELSE IF empty_parse(h).kind = "ok" /\ empty_parse(h).value # <<>>
    THEN Ok(<<>>)
    ELSE rows_parse(h, base_url)

\* TitlePageParser.parse
TitlePageParser_parse(h, base_url) ==
    IF _parse_errors(h).kind # "None"
    THEN _parse_errors(h)
    ELSE IF empty_parse(h).kind = "ParsingError"
    THEN empty_parse(h)
    ELSE IF empty_parse(h).kind = "ok" /\ empty_parse(h).value # <<>>
    THEN Ok(<<>>)
    ELSE rows_parse(h, base_url)

\* SubtitlePageParser.parse: Url with quant "1"
SubtitlePageParser_parse(h, base_url) ==
    IF _parse_errors(h).kind # "None"
    THEN _parse_errors(h)
    ELSE IF Len(h.download) # 1
    THEN Raise("ParsingError")
    ELSE Ok(urljoin(base_url, h.download[1]))

(***************************************************************************)
(* Title resolver                                                          *)
(***************************************************************************)
MaxExact   == 2    \* longest exact list
MaxClose   == 2    \* longest close list
MaxPopular == 1    \* longest popular list

Categories == {"exact", "close", "popular"}

Titles      == { <<"U","p">>, <<"U","s">>, <<"I","t">> }
QueryTitles == { <<"U","p">>, <<"U","s">> }
Years       == { <<"1","9","9","8">>, <<"1","9","6","1">> }
PopularYears == { <<"2","0","0","8">> }

\* link targets of the items of a category, in page order
UrlOf == [exact   |-> <<"/subtitles/e1", "/subtitles/e2", "/subtitles/e3", "/subtitles/e4">>,
          close   |-> <<"/subtitles/c1", "/subtitles/c2", "/subtitles/c3", "/subtitles/c4">>,
          popular |-> <<"/subtitles/p1", "/subtitles/p2", "/subtitles/p3", "/subtitles/p4">>]

\* jellyfish.jaro_winkler(s1, s2) for strings of two characters, in thirds.
\* The match window of the Jaro distance is max(len) // 2 - 1 = 0, so characters
\* match at equal positions only: no match gives 0.0, equal strings give 1.0
\* and one match gives (1/2 + 1/2 + 1) / 3 = 2/3, which is below the 0.7 from
\* which the common prefix adds to it.  The resolver compares the values only.
jaro_winkler(s1, s2) ==
    LET common == Cardinality({i \in 1..2 : s1[i] = s2[i]})
    IN  CASE common = 0 -> 0
          [] common = 1 -> 2
          [] common = 2 -> 3

\* the display title of a record as scraped: "Title (YYYY)"
Display(t, y) == t \o <<" ", "(">> \o y \o <<")">>

\* s[k..] starts with \(([12][0-9]{3})\)
YearAt(s, k) ==
    /\ k + 5 <= Len(s)
    /\ s[k] = "("
    /\ s[k + 1] \in {"1", "2"}
    /\ \A i \in (k + 2)..(k + 4) : s[i] \in Digits
    /\ s[k + 5] = ")"

\* s[j+1..] starts with \s+\(([12][0-9]{3})\) and the paren is at k
YearAfter(s, j, k) ==
    /\ k > j + 1
    /\ \A i \in (j + 1)..(k - 1) : IsSpace(s[i])
    /\ YearAt(s, k)

\* Subscene._parse_title: re.match(r"(.+)\s+\(([12][0-9]{3})\)", title); the
\* greedy (.+) ends at the last position the rest of the pattern can follow
_parse_title(s) ==
    LET J == {j \in 1..Len(s) :
                /\ \A i \in 1..j : s[i] # "\n"
                /\ \E k \in 1..Len(s) : YearAfter(s, j, k)}
    IN  IF J = {}
        THEN Raise("AttributeError")
        ELSE LET j == SetMax(J)
                 k == CHOOSE k \in 1..Len(s) : YearAfter(s, j, k)
             IN  Ok([title |-> SubSeq(s, 1, j), year |-> SubSeq(s, k + 1, k + 4)])

\* the record of Subscene._match_movie for a record of cli.match_title
ApiEntry(m) == [url |-> m.url, title |-> Display(m.title, m.year)]
ApiResults(rs) == [k \in DOMAIN rs |-> [i \in 1..Len(rs[k]) |-> ApiEntry(rs[k][i])]]

\* exact_same_year with the loop keeping the last match instead of returning
\* at the first
exact_same_year_last(exact, y) ==
    LET I == {i \in 1..Len(exact) : exact[i].year = y}
    IN  IF I = {} THEN None ELSE Ok(exact[SetMax(I)])

\* cli.match_title, lines 241-243: the exact match with the year of the query
exact_same_year(exact, y) ==
    LET I == {i \in 1..Len(exact) : exact[i].year = y}
    IN  IF I = {} THEN None ELSE Ok(exact[SetMin(I)])

\* same_year_matches without the year condition of the comprehension
same_year_matches_any(close, y) == close

\* cli.match_title, lines 248-250
same_year_matches(close, y) == SelectSeq(close, LAMBDA m : m.year = y)

\* cli.match_title, lines 251-255: the loop over same_year_matches from item i
RECURSIVE best_match_from(_, _, _, _, _)
best_match_from(ms, i, t, best_score, best_match) ==
    IF i > Len(ms)
    THEN best_match
    ELSE IF jaro_winkler(ms[i].title, t) > best_score
         THEN best_match_from(ms, i + 1, t, jaro_winkler(ms[i].title, t), Ok(ms[i]))
         ELSE best_match_from(ms, i + 1, t, best_score, best_match)

\* cli.match_title, lines 245-256: best_score = 0, best_match = None
closest_match(close, t, y) == best_match_from(same_year_matches(close, y), 1, t, 0, None)

\* match_title without the single-exact return of lines 238-239
match_title_year_checked(t, y, rs) ==
    IF "exact" \notin DOMAIN rs
    THEN Raise("KeyError")
    ELSE IF rs["exact"] # <<>> /\ exact_same_year(rs["exact"], y).kind = "ok"
    THEN exact_same_year(rs["exact"], y)
    ELSE IF "close" \notin DOMAIN rs
    THEN Raise("KeyError")
    ELSE IF rs["close"] # <<>>
    THEN closest_match(rs["close"], t, y)
    ELSE None

\* match_title with a last resort of the first popular title instead of None
match_title_popular(t, y, rs) ==
    IF "exact" \notin DOMAIN rs
    THEN Raise("KeyError")
    ELSE IF rs["exact"] # <<>> /\ Len(rs["exact"]) = 1
    THEN Ok(rs["exact"][1])
    ELSE IF rs["exact"] # <<>> /\ exact_same_year(rs["exact"], y).kind = "ok"
    THEN exact_same_year(rs["exact"], y)
    ELSE IF "close" \notin DOMAIN rs
    THEN Raise("KeyError")
    ELSE IF rs["close"] # <<>>
    THEN closest_match(rs["close"], t, y)
    ELSE IF "popular" \in DOMAIN rs /\ rs["popular"] # <<>>
    THEN Ok(rs["popular"][1])
    ELSE None

\* cli.match_title(title, year, results), after results = results["results"]
match_title(t, y, rs) ==
    IF "exact" \notin DOMAIN rs
    THEN Raise("KeyError")
    ELSE IF rs["exact"] # <<>> /\ Len(rs["exact"]) = 1
    THEN Ok(rs["exact"][1])
    ELSE IF rs["exact"] # <<>> /\ exact_same_year(rs["exact"], y).kind = "ok"
    THEN exact_same_year(rs["exact"], y)
    ELSE IF "close" \notin DOMAIN rs
    THEN Raise("KeyError")
    ELSE IF rs["close"] # <<>>
    THEN closest_match(rs["close"], t, y)
    ELSE None

\* Subscene._match_movie, lines 199-202: the loop over matches["exact"] from item i
RECURSIVE api_exact_from(_, _, _)
api_exact_from(exact, i, y) ==
    IF i > Len(exact)
    THEN None
    ELSE LET p == _parse_title(exact[i].title)
         IN  IF p.kind # "ok"
             THEN p
             ELSE IF p.value.year = y
                  THEN Ok(exact[i])
                  ELSE api_exact_from(exact, i + 1, y)

\* Subscene._match_movie, lines 207-211
api_same_year_matches(close, y) ==
    IF \E i \in 1..Len(close) : _parse_title(close[i].title).kind # "ok"
    THEN Raise("AttributeError")
    ELSE Ok(SelectSeq(close, LAMBDA m : _parse_title(m.title).value.year = y))

\* Subscene._match_movie, lines 212-217: the loop over same_year_matches from item i
RECURSIVE api_best_match_from(_, _, _, _, _)
api_best_match_from(ms, i, t, best_score, best_match) ==
    IF i > Len(ms)
    THEN best_match
    ELSE LET match_title_ == _parse_title(ms[i].title).value.title
             score_       == jaro_winkler(match_title_, t)
         IN  IF score_ > best_score
             THEN api_best_match_from(ms, i + 1, t, score_, Ok(ms[i]))
             ELSE api_best_match_from(ms, i + 1, t, best_score, best_match)

\* Subscene._match_movie, lines 204-218
api_closest_match(close, t, y) ==
    LET same == api_same_year_matches(close, y)
    IN  IF same.kind # "ok"
        THEN same
        ELSE api_best_match_from(same.value, 1, t, 0, None)

\* Subscene._match_movie(title, year, matches)
_match_movie(t, y, matches) ==
    IF "exact" \notin DOMAIN matches
    THEN Raise("KeyError")
    ELSE IF matches["exact"] # <<>> /\ Len(matches["exact"]) = 1
    THEN Ok(matches["exact"][1])
    ELSE IF matches["exact"] # <<>> /\ api_exact_from(matches["exact"], 1, y).kind # "None"
    THEN api_exact_from(matches["exact"], 1, y)
    ELSE IF "close" \notin DOMAIN matches
    THEN Raise("KeyError")
    ELSE IF matches["close"] # <<>>
    THEN api_closest_match(matches["close"], t, y)
    ELSE None

(***************************************************************************)
(* Subtitle filters                                                        *)
(***************************************************************************)
MaxSubs == 2    \* longest subtitle list
MaxTags == 2    \* longest tag list

\* api.RATING: the values of the members
RATING == {"positive", "neutral", "bad"}

\* rating_scale with the members in the order the enum declares them
rating_scale_declared == <<"positive", "neutral", "bad">>

\* cli.filter_by_rating, lines 189-193
rating_scale == <<"bad", "neutral", "positive">>

\* list.index(v): the 0-based position of the first item equal to v
index(list, v) ==
    LET I == {i \in 1..Len(list) : list[i] = v}
    IN  IF I = {} THEN Raise("ValueError") ELSE Ok(SetMin(I) - 1)

\* line 199 with > in the place of >=
above_min_rating(subtitle_rating, min_rating_value) ==
    subtitle_rating > min_rating_value

\* cli.filter_by_rating, line 199
at_least_min_rating(subtitle_rating, min_rating_value) ==
    subtitle_rating >= min_rating_value

\* cli.filter_by_rating, lines 196-202: the loop over subtitles from item i
RECURSIVE filter_by_rating_from(_, _, _, _)
filter_by_rating_from(subs, i, min_rating_value, matching_subtitles) ==
    IF i > Len(subs)
    THEN Ok(matching_subtitles)
    ELSE LET subtitle_rating == index(rating_scale, subs[i].rating)
         IN  IF subtitle_rating.kind # "ok"
             THEN subtitle_rating
             ELSE IF at_least_min_rating(subtitle_rating.value, min_rating_value)
                  THEN filter_by_rating_from(subs, i + 1, min_rating_value,
                                             Append(matching_subtitles, subs[i]))
                  ELSE filter_by_rating_from(subs, i + 1, min_rating_value,
                                             matching_subtitles)

\* cli.filter_by_rating(subtitles, min_rating); min is min_rating.value
filter_by_rating(subs, min) ==
    LET min_rating_value == index(rating_scale, min)
    IN  IF min_rating_value.kind # "ok"
        THEN min_rating_value
        ELSE filter_by_rating_from(subs, 1, min_rating_value.value, <<>>)

\* the tag test of line 223 without the two lower() calls
tag_in_name_cased(tag, name) == Contains(name, tag)

\* cli.filter_by_tags, line 223: tag.lower() in subtitle["name"].lower()
tag_in_name(tag, name) == Contains(Lower(name), Lower(tag))

\* the for/else of lines 222-226 taking a subtitle as soon as one tag matches
matches_some_tag(name, ts) == \E i \in 1..Len(ts) : tag_in_name(ts[i], name)

\* cli.filter_by_tags, lines 222-226: the loop breaks at the first tag that is
\* not in the name, and its else branch keeps the subtitle
matches_all_tags(name, ts) == \A i \in 1..Len(ts) : tag_in_name(ts[i], name)

\* cli.filter_by_tags(subtitles, tags)
filter_by_tags(subs, ts) ==
    IF Len(ts) = 0
    THEN Ok(subs)
    ELSE Ok(SelectSeq(subs, LAMBDA subtitle : matches_all_tags(subtitle.name, ts)))

\* cli.error(message): writes the message and calls exit(exit_code)
error(message) == [kind |-> "SystemExit", value |-> message]

\* the selection of download with the kept subtitles ordered by rating,
\* positive before neutral
select_subtitles_best_rated(subs, ts) ==
    IF Len(subs) = 0
    THEN error("No subtitles")
    ELSE LET tagged == filter_by_tags(subs, ts).value
         IN  IF Len(tagged) = 0
             THEN error("No subtitles matched tags")
             ELSE LET rated == filter_by_rating(tagged, "neutral")
                  IN  IF rated.kind # "ok"
                      THEN rated
                      ELSE IF Len(rated.value) = 0
                      THEN error("No matching subtitles with 'neutral' or better rating")
                      ELSE Ok(SelectSeq(rated.value, LAMBDA sub : sub.rating = "positive")
                              \o SelectSeq(rated.value, LAMBDA sub : sub.rating # "positive"))

\* the selection of download with the rating filter and its exit before the
\* tag filter and its exit
select_subtitles_rating_first(subs, ts) ==
    IF Len(subs) = 0
    THEN error("No subtitles")
    ELSE LET rated == filter_by_rating(subs, "neutral")
         IN  IF rated.kind # "ok"
             THEN rated
             ELSE IF Len(rated.value) = 0
             THEN error("No matching subtitles with 'neutral' or better rating")
             ELSE IF Len(filter_by_tags(rated.value, ts).value) = 0
             THEN error("No subtitles matched tags")
             ELSE filter_by_tags(rated.value, ts)

\* cli.download, lines 273-282: the list whose element 0 is downloaded;
\* filter_by_tags, then filter_by_rating with its default min_rating, and an
\* exit when a list is empty
select_subtitles(subs, ts) ==
    IF Len(subs) = 0
    THEN error("No subtitles")
    ELSE LET tagged == filter_by_tags(subs, ts).value
         IN  IF Len(tagged) = 0
             THEN error("No subtitles matched tags")
             ELSE LET rated == filter_by_rating(tagged, "neutral")
                  IN  IF rated.kind # "ok"
                      THEN rated
                      ELSE IF Len(rated.value) = 0
                      THEN error("No matching subtitles with 'neutral' or better rating")
                      ELSE rated

(***************************************************************************)
(* Decoding of subtitle files (cli.decode, Subscene._extract_sub)          *)
(*                                                                         *)
(* bytes are sequences of integers 0..255 and a str is the sequence of its *)
(* code points                                                             *)
(***************************************************************************)
MaxBytes == 3    \* longest file given to the decoders byte by byte
MaxChars == 2    \* longest text that is encoded and decoded again
MaxFiles == 2    \* most files of an archive

\* b[i] is a continuation byte 10xxxxxx
Cont(b, i) == i <= Len(b) /\ b[i] >= 128 /\ b[i] <= 191

\* bytes.decode("utf-8") from position i: the strict decoder, which rejects
\* stray and missing continuation bytes, overlong forms, surrogates and
\* code points above U+10FFFF
RECURSIVE utf_8_decode_from(_, _, _)
utf_8_decode_from(b, i, acc) ==
    IF i > Len(b)
    THEN Ok(acc)
    ELSE LET c == b[i]
         IN  CASE c < 128 ->
                    utf_8_decode_from(b, i + 1, Append(acc, c))
               [] c >= 194 /\ c <= 223 /\ Cont(b, i + 1) ->
                    utf_8_decode_from(b, i + 2,
                        Append(acc, (c - 192) * 64 + (b[i + 1] - 128)))
               [] /\ c >= 224 /\ c <= 239 /\ Cont(b, i + 1) /\ Cont(b, i + 2)
                  /\ (c = 224 => b[i + 1] >= 160)
                  /\ (c = 237 => b[i + 1] <= 159) ->
                    utf_8_decode_from(b, i + 3,
                        Append(acc, (c - 224) * 4096 + (b[i + 1] - 128) * 64
                                       + (b[i + 2] - 128)))
               [] /\ c >= 240 /\ c <= 244
                  /\ Cont(b, i + 1) /\ Cont(b, i + 2) /\ Cont(b, i + 3)
                  /\ (c = 240 => b[i + 1] >= 144)
                  /\ (c = 244 => b[i + 1] <= 143) ->
                    utf_8_decode_from(b, i + 4,
                        Append(acc, (c - 240) * 262144 + (b[i + 1] - 128) * 4096
                                       + (b[i + 2] - 128) * 64 + (b[i + 3] - 128)))
               [] OTHER -> Raise("UnicodeDecodeError")

\* the UTF-8 encoding of U+FEFF
BOM_UTF8 == <<239, 187, 191>>

\* bytes.decode("utf-8"): a leading BOM is decoded as U+FEFF and kept
utf_8_decode(b) == utf_8_decode_from(b, 1, <<>>)

\* bytes.decode("utf-8-sig"): one leading BOM is skipped
utf_8_sig_decode(b) ==
    IF Len(b) >= 3 /\ SubSeq(b, 1, 3) = BOM_UTF8
    THEN utf_8_decode_from(b, 4, <<>>)
    ELSE utf_8_decode_from(b, 1, <<>>)

\* the code points of the bytes 128..255 in the windows-1256 code page
CP1256 == <<
      8364, 1662, 8218, 402, 8222, 8230, 8224, 8225,
      710, 8240, 1657, 8249, 338, 1670, 1688, 1672,
      1711, 8216, 8217, 8220, 8221, 8226, 8211, 8212,
      1705, 8482, 1681, 8250, 339, 8204, 8205, 1722,
      160, 1548, 162, 163, 164, 165, 166, 167,
      168, 169, 1726, 171, 172, 173, 174, 175,
      176, 177, 178, 179, 180, 181, 182, 183,
      184, 185, 1563, 187, 188, 189, 190, 1567,
      1729, 1569, 1570, 1571, 1572, 1573, 1574, 1575,
      1576, 1577, 1578, 1579, 1580, 1581, 1582, 1583,
      1584, 1585, 1586, 1587, 1588, 1589, 1590, 215,
      1591, 1592, 1593, 1594, 1600, 1601, 1602, 1603,
      224, 1604, 226, 1605, 1606, 1607, 1608, 231,
      232, 233, 234, 235, 1609, 1610, 238, 239,
      1611, 1612, 1613, 1614, 244, 1615, 1616, 247,
      1617, 249, 1618, 251, 252, 8206, 8207, 1746 >>

\* bytes.decode("windows-1256"): every byte has a character
windows_1256_decode(b) ==
    Ok([i \in 1..Len(b) |-> IF b[i] < 128 THEN b[i] ELSE CP1256[b[i] - 127]])

\* the 16-bit units of b from byte i, the low byte first or last
RECURSIVE utf_16_units(_, _, _)
utf_16_units(b, i, little) ==
    IF i + 1 > Len(b)
    THEN <<>>
    ELSE <<IF little THEN b[i] + 256 * b[i + 1] ELSE 256 * b[i] + b[i + 1]>>
            \o utf_16_units(b, i + 2, little)

\* the code points of the units u from unit i: a high surrogate takes the low
\* surrogate after it, a surrogate on its own is an error
RECURSIVE utf_16_chars(_, _, _)
utf_16_chars(u, i, acc) ==
    IF i > Len(u)
    THEN Ok(acc)
    ELSE CASE u[i] < 55296 \/ u[i] > 57343 ->
                utf_16_chars(u, i + 1, Append(acc, u[i]))
           [] /\ u[i] >= 55296 /\ u[i] <= 56319
              /\ i < Len(u) /\ u[i + 1] >= 56320 /\ u[i + 1] <= 57343 ->
                utf_16_chars(u, i + 2,
                    Append(acc, 65536 + (u[i] - 55296) * 1024 + (u[i + 1] - 56320)))
           [] OTHER -> Raise("UnicodeDecodeError")

\* bytes.decode("utf-16"): FF FE or FE FF at the start gives the byte order
\* and is skipped, without it the order is little-endian; a byte left over
\* is an error
utf_16_decode(b) ==
    LET le    == Len(b) >= 2 /\ b[1] = 255 /\ b[2] = 254
        be    == Len(b) >= 2 /\ b[1] = 254 /\ b[2] = 255
        start == IF le \/ be THEN 3 ELSE 1
    IN  IF (Len(b) - start + 1) % 2 = 1
        THEN Raise("UnicodeDecodeError")
        ELSE utf_16_chars(utf_16_units(b, start, ~be), 1, <<>>)

\* blob.decode(encoding)
bytes_decode(b, encoding) ==
    CASE encoding = "utf-8-sig"    -> utf_8_sig_decode(b)
      [] encoding = "utf-8"        -> utf_8_decode(b)
      [] encoding = "windows-1256" -> windows_1256_decode(b)
      [] encoding = "utf-16"       -> utf_16_decode(b)

\* the encodings of cli.decode with the code page tried before UTF-8
encodings_code_page_first(code) ==
    IF code = "ar"
    THEN <<"windows-1256", "utf-8-sig", "utf-16">>
    ELSE <<"utf-8-sig">>

\* the encodings of cli.decode with "utf-8" for "utf-8-sig"
encodings_plain_utf_8(code) ==
    IF code = "ar"
    THEN <<"utf-8", "windows-1256", "utf-16">>
    ELSE <<"utf-8">>

\* the encodings of cli.decode extended for every language
encodings_every_language(code) == <<"utf-8-sig", "windows-1256", "utf-16">>

\* cli.decode, lines 158-163: the encodings to try, in order
encodings(code) ==
    IF code = "ar"
    THEN <<"utf-8-sig", "windows-1256", "utf-16">>
    ELSE <<"utf-8-sig">>

\* cli.decode, lines 165-174: the loop from encoding i; the value is the text
\* and the encodings blob.decode was called with
RECURSIVE decode_from(_, _, _)
decode_from(b, encs, i) ==
    IF i > Len(encs)
    THEN [kind |-> "ValueError", value |-> [text |-> <<>>, tried |-> encs]]
    ELSE LET d == bytes_decode(b, encs[i])
         IN  IF d.kind = "UnicodeDecodeError"
             THEN decode_from(b, encs, i + 1)
             ELSE Ok([text |-> d.value, tried |-> SubSeq(encs, 1, i)])

\* cli.decode(blob, language_code)
decode(b, code) == decode_from(b, encodings(code), 1)

\* str.endswith
endswith(name, suffix) ==
    /\ Len(name) >= Len(suffix)
    /\ SubSeq(name, Len(name) - Len(suffix) + 1, Len(name)) = suffix

\* ZipFile.open(name).read(): the file is looked up by its name, and of several
\* entries of one name the archive's table of names holds the last
zip_open(zip, name) == zip[SetMax({i \in 1..Len(zip) : zip[i].name = name})].body

\* Subscene._extract_sub with the UnicodeDecodeError of line 182 not caught
_extract_sub_no_fallback(zip) ==
    LET srt == {i \in 1..Len(zip) : endswith(zip[i].name, <<".", "s", "r", "t">>)}
    IN  IF srt = {}
        THEN None
        ELSE utf_8_sig_decode(zip_open(zip, zip[SetMin(srt)].name))

\* Subscene._extract_sub: the text of the file of the first name that ends in .srt,
\* decoded as utf-8-sig or else as windows-1256; None without such a file
_extract_sub(zip) ==
    LET srt == {i \in 1..Len(zip) : endswith(zip[i].name, <<".", "s", "r", "t">>)}
    IN  IF srt = {}
        THEN None
        ELSE LET file_contents == zip_open(zip, zip[SetMin(srt)].name)
             IN  IF utf_8_sig_decode(file_contents).kind = "UnicodeDecodeError"
                 THEN windows_1256_decode(file_contents)
                 ELSE utf_8_sig_decode(file_contents)

(***************************************************************************)
(* The result sets given to the resolver                                   *)
(***************************************************************************)
\* the list of a category whose items have the given <<title, year>> pairs
MkList(cat, tys) ==
    [i \in 1..Len(tys) |-> [url |-> UrlOf[cat][i], title |-> tys[i][1], year |-> tys[i][2]]]

Absent == [present |-> FALSE, items |-> <<>>]

\* a category of the page: absent, or a list of at most n items
CategoryLists(cat, ts, ys, n) ==
    {Absent} \cup {[present |-> TRUE, items |-> MkList(cat, tys)] :
                      tys \in SeqsUpTo(ts \X ys, n)}

\* the dict of the categories that are present
MkResults(e, c, p) ==
    LET keys == {k \in Categories : CASE k = "exact"   -> e.present
                                      [] k = "close"   -> c.present
                                      [] k = "popular" -> p.present}
    IN  [k \in keys |-> CASE k = "exact"   -> e.items
                          [] k = "close"   -> c.items
                          [] k = "popular" -> p.items]

\* the result sets of a search for t: items of the exact category carry the
\* title searched for; the popular list is never read by the resolver, its
\* items differ in their link target only
ResultSets(t) ==
    {MkResults(e, c, p) : e \in CategoryLists("exact", {t}, Years, MaxExact),
                          c \in CategoryLists("close", Titles, Years, MaxClose),
                          p \in CategoryLists("popular", Titles \ QueryTitles, PopularYears, MaxPopular)}

InitParseIdle   == html = <<>> /\ parsed = [p \in Parsers |-> NotRun]
InitResolveIdle == /\ title = <<>> /\ year = <<>> /\ results = <<>>
                   /\ matched = NotRun
InitSelectIdle  == /\ subtitles = <<>> /\ tags = <<>> /\ min_rating = "neutral"
                   /\ filtered = NotRun
InitDecodeIdle  == /\ blob = <<>> /\ archive = <<>> /\ language_code = "en"
                   /\ decoded = NotRun
NoFile          == [created |-> FALSE, content |-> <<>>]
InitDownloadIdle == /\ pc = "idle" /\ requests = <<>> /\ outcome = NotRun
                    /\ output_file = NoFile
InitLanguageIdle == argument = <<>> /\ language = NotRun
InitApiIdle     == subtitle_url = <<>>
NoSubtitle      == [url |-> None, rating |-> "None", name |-> None]
NoOrigin        == [url |-> 0, rating |-> 0, name |-> 0]
InitLegacyIdle  == /\ source = "None" /\ location = "None" /\ self_subtitle = NoSubtitle
                   /\ row = 0 /\ origin = NoOrigin /\ raised = "None"

InitResolve ==
    /\ title \in QueryTitles
    /\ year \in Years
    /\ results \in ResultSets(title)
    /\ matched = NotRun
    /\ InitParseIdle
    /\ InitSelectIdle
    /\ InitDecodeIdle
    /\ InitDownloadIdle
    /\ InitLanguageIdle /\ InitApiIdle /\ InitLegacyIdle

\* cli.download, line 266
MatchTitle ==
    /\ matched' = Call("match_title", match_title(title, year, results))
    /\ UNCHANGED <<languageVars, subtitle_url, legacyVars, title, year, results, parseVars, selectVars, decodeVars, downloadVars>>

\* Subscene.searchbytitle, line 235
MatchMovie ==
    /\ matched' = Call("_match_movie", _match_movie(title, year, ApiResults(results)))
    /\ UNCHANGED <<languageVars, subtitle_url, legacyVars, title, year, results, parseVars, selectVars, decodeVars, downloadVars>>

NextResolve == MatchTitle \/ MatchMovie

SpecResolve == InitResolve /\ [][NextResolve]_vars

(***************************************************************************)
(* The subtitle lists and tags given to the filters                        *)
(***************************************************************************)
\* release names of a title page
Names == { <<"a", ".", "b", ".", "c">>, <<"a", ".", "c">>, <<"A", ".", "B">> }

\* tags of the caller
TagSet == { <<"a">>, <<"B">>, <<".", "c">> }

\* what TitlePageParser._parse_rating gives for the icon classes
\* "positive-icon", "neutral-icon", "bad-icon" and "Positive-icon"
PageRatings == {"positive", "neutral", "bad", "Positive"}

\* link targets of the rows of a title page, in page order
SubUrl == <<"/subtitles/up/english/1", "/subtitles/up/english/2",
            "/subtitles/up/english/3", "/subtitles/up/english/4">>

\* the subtitle list whose rows have the given <<name, rating>> pairs
MkSubtitles(nrs) ==
    [i \in 1..Len(nrs) |-> [url |-> SubUrl[i], name |-> nrs[i][1], rating |-> nrs[i][2]]]

SubtitleLists == {MkSubtitles(nrs) : nrs \in SeqsUpTo(Names \X PageRatings, MaxSubs)}

\* a call passes tags (and the default min_rating) or a min_rating (and no tags)
InitSelect ==
    /\ subtitles \in SubtitleLists
    /\ \/ tags = <<>> /\ min_rating \in RATING
       \/ tags \in SeqsUpTo(TagSet, MaxTags) /\ min_rating = "neutral"
    /\ filtered = NotRun
    /\ InitParseIdle
    /\ InitResolveIdle
    /\ InitDecodeIdle
    /\ InitDownloadIdle
    /\ InitLanguageIdle /\ InitApiIdle /\ InitLegacyIdle

\* cli.download, line 280; tests/test_cli.py, lines 81-97
FilterByRating ==
    /\ filtered' = Call("filter_by_rating", filter_by_rating(subtitles, min_rating))
    /\ UNCHANGED <<languageVars, subtitle_url, legacyVars, subtitles, tags, min_rating, parseVars, resolveVars, decodeVars, downloadVars>>

\* cli.download, line 276
FilterByTags ==
    /\ filtered' = Call("filter_by_tags", filter_by_tags(subtitles, tags))
    /\ UNCHANGED <<languageVars, subtitle_url, legacyVars, subtitles, tags, min_rating, parseVars, resolveVars, decodeVars, downloadVars>>

\* cli.download, lines 273-284: the selection of the subtitle to download
SelectSubtitles ==
    /\ filtered' = Call("select_subtitles", select_subtitles(subtitles, tags))
    /\ UNCHANGED <<languageVars, subtitle_url, legacyVars, subtitles, tags, min_rating, parseVars, resolveVars, decodeVars, downloadVars>>

NextSelect == FilterByRating \/ FilterByTags \/ SelectSubtitles

SpecSelect == InitSelect /\ [][NextSelect]_vars

(***************************************************************************)
(* The documents given to the parsers                                      *)
(***************************************************************************)
\* page text: none, the throttling phrase, the phrase in capitals inside
\* markup, "To" for "Too", the phrase broken by a newline, and no character
\* between "To" and "many"
Texts == { <<>>,
           <<"T", "o", "o", " ", "m", "a", "n", "y", " ", "r", "e", "q", "u", "e", "s", "t", "s">>,
           <<"<", "h", "1", ">", "4", "2", "9", " ", "T", "O", "O", " ", "M", "A", "N", "Y", " ", "R", "E", "Q", "U", "E", "S", "T", "S", "<", "/", "h", "1", ">">>,
           <<"T", "o", " ", "m", "a", "n", "y", " ", "r", "e", "q", "u", "e", "s", "t", "s">>,
           <<"T", "o", "o", " ", "m", "a", "n", "y", "\n", "r", "e", "q", "u", "e", "s", "t", "s">>,
           <<"T", "o", "m", "a", "n", "y", " ", "r", "e", "q", "u", "e", "s", "t", "s">> }

\* anchor texts of the items of a search page
ItemTexts == { <<"U", "p", " ", "(", "1", "9", "9", "8", ")">>, <<"\n", " ", " ", "U", "p", "\n", " ", VerticalTab, "(", "1", "9", "6", "1", ")", UnitSeparator>> }

\* anchor texts of the items of the popular category
PopularTexts == { <<"I", "t", " ", "(", "2", "0", "0", "8", ")">> }

\* class attributes of the first span of a row
IconClasses == { <<"l", " ", "r", " ", "p", "o", "s", "i", "t", "i", "v", "e", "-", "i", "c", "o", "n">>, <<"l", " ", "r", " ", "n", "e", "u", "t", "r", "a", "l", "-", "i", "c", "o", "n">>, <<"l", " ", "r", " ", "b", "a", "d", "-", "i", "c", "o", "n">>,
                 <<"l", " ", "r", " ", "P", "o", "s", "i", "t", "i", "v", "e", "-", "i", "c", "o", "n">>, <<"l", " ", "r">> }

\* text of the last span of a row
RowNames == { <<"\n", " ", "a", ".", "b", ".", "c", " ", "\n">> }

\* texts of a td.empty cell
EmptyTexts == { <<"N", "o", " ", "s", "u", "b", "t", "i", "t", "l", "e", "s">>, <<>> }

\* the td.empty cells of a title page: none, one, or several with a text
MarkerLists ==
    SeqsUpTo(EmptyTexts, 1)
        \cup {[i \in 1..n |-> <<"N", "o", " ", "s", "u", "b", "t", "i", "t", "l", "e", "s">>] :
                 n \in 2..MaxMarkers}

DownloadHrefs == { "/subtitles/english-text/tb" }

Document(t, sec, e, r, d) ==
    [text |-> t, sections |-> sec, empty |-> e, rows |-> r, download |-> d]

\* the items of a category with the given anchor texts
MkItems(cat, texts) ==
    [i \in 1..Len(texts) |-> [href |-> UrlOf[cat][i], text |-> texts[i]]]

\* a category of a search page: absent, or a <ul> of at most MaxItems items
ItemLists(cat, T) ==
    {Absent} \cup {[present |-> TRUE, items |-> MkItems(cat, texts)] :
                      texts \in SeqsUpTo(T, MaxItems)}

\* the <ul> elements found for each category
MkSections(e, c, p) ==
    [k \in Categories |->
        LET l == CASE k = "exact"   -> e
                   [] k = "close"   -> c
                   [] k = "popular" -> p
        IN  IF l.present THEN <<l.items>> ELSE <<>>]

NoSections == MkSections(Absent, Absent, Absent)

\* the rows with the given icon classes
MkRows(classes) ==
    [i \in 1..Len(classes) |->
        [href |-> SubUrl[i], name |-> CHOOSE n \in RowNames : TRUE, class |-> classes[i]]]

\* search pages, title pages and subtitle pages
SearchDocuments(t) ==
    {Document(t, MkSections(e, c, p), <<>>, <<>>, <<>>) :
        e \in ItemLists("exact", ItemTexts), c \in ItemLists("close", PopularTexts),
        p \in ItemLists("popular", PopularTexts)}

TitleDocuments(t) ==
    {Document(t, NoSections, e, MkRows(classes), <<>>) :
        e \in MarkerLists, classes \in SeqsUpTo(IconClasses, MaxRows)}

SubtitleDocuments(t) ==
    {Document(t, NoSections, <<>>, <<>>, d) : d \in SeqsUpTo(DownloadHrefs, MaxAnchors)}

Documents ==
    UNION {SearchDocuments(t) \cup TitleDocuments(t) \cup SubtitleDocuments(t) : t \in Texts}

InitParse ==
    /\ html \in Documents
    /\ parsed = [p \in Parsers |-> NotRun]
    /\ InitResolveIdle
    /\ InitSelectIdle
    /\ InitDecodeIdle
    /\ InitDownloadIdle
    /\ InitLanguageIdle /\ InitApiIdle /\ InitLegacyIdle

\* TitleSearchResultsParser(html).parse(base_url=BASE_URL)
ParseSearchResults ==
    /\ parsed' = [parsed EXCEPT !["TitleSearchResultsParser"] =
                     Call("TitleSearchResultsParser", TitleSearchResultsParser_parse(html, BASE_URL))]
    /\ UNCHANGED <<languageVars, subtitle_url, legacyVars, html, resolveVars, selectVars, decodeVars, downloadVars>>

\* TitlePageParser(html).parse(base_url=BASE_URL)
ParseTitlePage ==
    /\ parsed' = [parsed EXCEPT !["TitlePageParser"] =
                     Call("TitlePageParser", TitlePageParser_parse(html, BASE_URL))]
    /\ UNCHANGED <<languageVars, subtitle_url, legacyVars, html, resolveVars, selectVars, decodeVars, downloadVars>>

\* SubtitlePageParser(html).parse(base_url=BASE_URL)
ParseSubtitlePage ==
    /\ parsed' = [parsed EXCEPT !["SubtitlePageParser"] =
                     Call("SubtitlePageParser", SubtitlePageParser_parse(html, BASE_URL))]
    /\ UNCHANGED <<languageVars, subtitle_url, legacyVars, html, resolveVars, selectVars, decodeVars, downloadVars>>

NextParse == ParseSearchResults \/ ParseTitlePage \/ ParseSubtitlePage

SpecParse == InitParse /\ [][NextParse]_vars

(***************************************************************************)
(* The files given to the decoders                                         *)
(***************************************************************************)
\* "A", the two bytes of the UTF-8 form of U+0627, and the bytes of the BOM
ByteSet == {65, 216, 167, 239, 187, 191}

Blobs == SeqsUpTo(ByteSet, MaxBytes)

\* code points of an Arabic text: alef, an ASCII letter, the right-to-left
\* mark; one, two and three bytes in UTF-8
ArabicChars == {1575, 65, 8207}

ArabicTexts == SeqsUpTo(ArabicChars, MaxChars)

\* str.encode("utf-8") of one code point (no surrogate)
utf_8_encode_char(c) ==
    CASE c < 128   -> <<c>>
      [] c >= 128 /\ c < 2048 ->
            <<192 + (c \div 64), 128 + (c % 64)>>
      [] c >= 2048 /\ c < 65536 ->
            <<224 + (c \div 4096), 128 + ((c \div 64) % 64), 128 + (c % 64)>>
      [] OTHER ->
            <<240 + (c \div 262144), 128 + ((c \div 4096) % 64),
              128 + ((c \div 64) % 64), 128 + (c % 64)>>

\* str.encode("utf-8")
RECURSIVE utf_8_encode(_)
utf_8_encode(s) ==
    IF s = <<>> THEN <<>> ELSE utf_8_encode_char(Head(s)) \o utf_8_encode(Tail(s))

\* str.encode("utf-8-sig")
utf_8_sig_encode(s) == BOM_UTF8 \o utf_8_encode(s)

EncodedTexts == {utf_8_encode(s) : s \in ArabicTexts} \cup {utf_8_sig_encode(s) : s \in ArabicTexts}

FileNames == { <<"a", ".", "s", "r", "t">>, <<"a", ".", "t", "x", "t">> }

\* the archive of the files of the given names: the last one holds the bytes
\* b, the ones before it the letter A
MkArchive(names, b) ==
    [i \in 1..Len(names) |->
        [name |-> names[i], body |-> IF i = Len(names) THEN b ELSE <<65>>]]

Archives(b) == {MkArchive(names, b) : names \in SeqsUpTo(FileNames, MaxFiles)}

\* the bytes are decoded for a language, or are a file of an archive
InitDecode ==
    /\ blob \in Blobs \cup EncodedTexts
    /\ \/ archive = <<>> /\ language_code \in {"ar", "en"}
       \/ archive \in Archives(blob) \ {<<>>} /\ language_code = "en"
    /\ decoded = NotRun
    /\ InitParseIdle
    /\ InitResolveIdle
    /\ InitSelectIdle
    /\ InitDownloadIdle
    /\ InitLanguageIdle /\ InitApiIdle /\ InitLegacyIdle

\* cli.download, line 299: decode(subtitle_bytes, language['code'])
Decode ==
    /\ decoded' = Call("decode", decode(blob, language_code))
    /\ UNCHANGED <<languageVars, subtitle_url, legacyVars, blob, archive, language_code, parseVars, resolveVars, selectVars, downloadVars>>

\* a call of Subscene._extract_sub on the archive
ExtractSub ==
    /\ decoded' = Call("_extract_sub", _extract_sub(archive))
    /\ UNCHANGED <<languageVars, subtitle_url, legacyVars, blob, archive, language_code, parseVars, resolveVars, selectVars, downloadVars>>

NextDecode == Decode \/ ExtractSub

SpecDecode == InitDecode /\ [][NextDecode]_vars

(***************************************************************************)
(* The pipeline (cli.download)                                             *)
(*                                                                         *)
(* cli.download calls Subscene.search_titles, get_title and get_subtitle,  *)
(* which src/subscene/api.py does not hold: they are modelled from their   *)
(* tests (tests/test_api.py) and from sections 4.1 and 4.4 of the          *)
(* specification, on top of the parsers of htmlparse.py.                   *)
(***************************************************************************)
\* api.FILE_TYPES: the values of the members
FILE_TYPES == { <<"s", "r", "t">>, <<"s", "r", "t", ".", "s", "t", "y", "l", "e">>, <<"s", "u", "b">>, <<"t", "x", "t">>, <<"s", "s", "a">>, <<"a", "s", "s">>, <<"s", "m", "i">> }

\* the characters of the str objects that the rating filter compares
RatingStrings == [positive |-> <<"p", "o", "s", "i", "t", "i", "v", "e">>, neutral |-> <<"n", "e", "u", "t", "r", "a", "l">>, bad |-> <<"b", "a", "d">>, Positive |-> <<"P", "o", "s", "i", "t", "i", "v", "e">>]

\* the str of the given characters, as the filters of cli.py hold a rating
str(cs) ==
    IF \E r \in DOMAIN RatingStrings : RatingStrings[r] = cs
    THEN CHOOSE r \in DOMAIN RatingStrings : RatingStrings[r] = cs
    ELSE "other"

\* the title record of search_titles for a record of the parser: the year is
\* split from the title
title_record(m) ==
    [url |-> m.url, title |-> _parse_title(m.title).value.title,
     year |-> _parse_title(m.title).value.year]

\* Subscene.search_titles on the page the POST returned: every category is a
\* key, the list of an absent one empty
search_titles(h) ==
    LET data == TitleSearchResultsParser_parse(h, BASE_URL)
    IN  IF data.kind # "ok"
        THEN data
        ELSE IF \E k \in DOMAIN data.value : \E i \in 1..Len(data.value[k]) :
                    _parse_title(data.value[k][i].title).kind # "ok"
        THEN Raise("AttributeError")
        ELSE Ok([k \in Categories |->
                    IF k \in DOMAIN data.value
                    THEN [i \in 1..Len(data.value[k]) |-> title_record(data.value[k][i])]
                    ELSE <<>>])

\* Subscene.get_title on the page the GET returned: data["subtitles"]
get_title(h) ==
    LET data == TitlePageParser_parse(h, BASE_URL)
    IN  IF data.kind # "ok"
        THEN data
        ELSE Ok([i \in 1..Len(data.value) |->
                    [url |-> data.value[i].url, name |-> data.value[i].name,
                     rating |-> str(data.value[i].rating)]])

\* a file of the archive is a subtitle file: its name ends in an extension of
\* FILE_TYPES
qualifies(name) == \E ext \in FILE_TYPES : endswith(name, <<".">> \o ext)

\* Subscene.get_subtitle: data["files"] for the archive the link leads to
files_of(zip) == SelectSeq(zip, LAMBDA f : qualifies(f.name))

\* line 285 of cli.download never taking a pack for unsupported
is_pack_never(files) == FALSE

\* cli.download, line 285: the pack has more than one file
is_pack(files) == Len(files) > 1

\* a stage that raised TooManyRequestsError is run again
next_stage_retry(stage, r, following) ==
    CASE r.kind = "ok" -> following
      [] r.kind = "TooManyRequestsError" -> stage
      [] OTHER -> "done"

\* cli.download has no try statement: an exception or exit of a stage ends
\* the run, a result leads to the following stage
next_stage(stage, r, following) ==
    IF r.kind = "ok" THEN following ELSE "done"

\* how the run ended: nothing while a stage follows
ended(stage, r) == IF stage = "done" THEN Call("download", r) ELSE NotRun

\* the HTTP request
Request(method, url) == [method |-> method, url |-> url]

(***************************************************************************)
(* The pages and archives the site answers with                            *)
(***************************************************************************)
PageTexts == { <<>>, <<"T", "o", "o", " ", "m", "a", "n", "y", " ", "r", "e", "q", "u", "e", "s", "t", "s">> }

SearchPages ==
    {Document(t, MkSections(e, Absent, Absent), <<>>, <<>>, <<>>) :
        t \in PageTexts, e \in ItemLists("exact", { <<"U", "p", " ", "(", "1", "9", "9", "8", ")">> })}

PipelineClasses == { <<"l", " ", "r", " ", "p", "o", "s", "i", "t", "i", "v", "e", "-", "i", "c", "o", "n">>, <<"l", " ", "r", " ", "b", "a", "d", "-", "i", "c", "o", "n">> }

\* a title page has the no-results marker, or rows, or neither
TitlePages ==
    {Document(t, NoSections, << <<"N", "o", " ", "s", "u", "b", "t", "i", "t", "l", "e", "s">> >>, <<>>, <<>>) : t \in PageTexts}
        \cup {Document(t, NoSections, <<>>, MkRows(classes), <<>>) :
                 t \in PageTexts, classes \in SeqsUpTo(PipelineClasses, MaxRows)}

SubtitlePages == UNION {SubtitleDocuments(t) : t \in PageTexts}

\* names of the files of an archive: two subtitle files and a text that is none
PipelineNames == FileNames \cup { <<"a", ".", "n", "f", "o">> }

\* the UTF-8 bytes of alef after a BOM, and a byte that is no UTF-8
PipelineBodies == { utf_8_sig_encode(<<1575>>), <<167>> }

PipelineArchives ==
    {MkArchive(names, b) : names \in SeqsUpTo(PipelineNames, MaxFiles), b \in PipelineBodies}

PipelineTags == { <<>>, << <<"a">> >>, << <<"x">> >> }

InitDownload ==
    /\ title = <<"U", "p">>
    /\ year \in Years
    /\ tags \in PipelineTags
    /\ language_code \in {"ar", "en"}
    /\ pc = "search_titles"
    /\ html = <<>> /\ parsed = [p \in Parsers |-> NotRun]
    /\ results = <<>> /\ matched = NotRun
    /\ subtitles = <<>> /\ min_rating = "neutral" /\ filtered = NotRun
    /\ blob = <<>> /\ archive = <<>> /\ decoded = NotRun
    /\ requests = <<>> /\ outcome = NotRun /\ output_file = NoFile
    /\ InitLanguageIdle /\ InitApiIdle /\ InitLegacyIdle

\* cli.download, lines 265-269: the search and the choice of the title
SearchTitles ==
    /\ pc = "search_titles"
    /\ \E page \in SearchPages :
         LET data  == search_titles(page)
             m     == IF data.kind = "ok" THEN match_title(title, year, data.value) ELSE data
             r     == IF m.kind = "None" THEN error("Title not found") ELSE m
             stage == next_stage("search_titles", r, "get_title")
         IN  /\ html' = page
             /\ requests' = Append(requests,
                                   Request("POST", urljoin(BASE_URL, "/subtitles/searchbytitle")))
             /\ parsed' = [parsed EXCEPT !["TitleSearchResultsParser"] =
                              Call("TitleSearchResultsParser",
                                   TitleSearchResultsParser_parse(page, BASE_URL))]
             /\ results' = IF data.kind = "ok" THEN data.value ELSE results
             /\ matched' = IF data.kind = "ok" THEN Call("match_title", m) ELSE matched
             /\ pc' = stage
             /\ outcome' = ended(stage, r)
    /\ UNCHANGED <<languageVars, subtitle_url, legacyVars, title, year, selectVars, decodeVars, output_file>>

\* cli.download, lines 271-282: the title page and the selection
GetTitle ==
    /\ pc = "get_title"
    /\ \E page \in TitlePages :
         LET data  == get_title(page)
             r     == IF data.kind = "ok" THEN select_subtitles(data.value, tags) ELSE data
             stage == next_stage("get_title", r, "get_subtitle")
         IN  /\ html' = page
             /\ requests' = Append(requests, Request("GET", matched.value.url))
             /\ parsed' = [parsed EXCEPT !["TitlePageParser"] =
                              Call("TitlePageParser", TitlePageParser_parse(page, BASE_URL))]
             /\ subtitles' = IF data.kind = "ok" THEN data.value ELSE subtitles
             /\ filtered' = IF data.kind = "ok" THEN Call("select_subtitles", r) ELSE filtered
             /\ pc' = stage
             /\ outcome' = ended(stage, r)
    /\ UNCHANGED <<languageVars, subtitle_url, legacyVars, resolveVars, tags, min_rating, decodeVars, output_file>>

\* cli.download, lines 284-287: the subtitle page, the archive its link leads
\* to, and the refusal of a pack
GetSubtitle ==
    /\ pc = "get_subtitle"
    /\ \E page \in SubtitlePages, zip \in PipelineArchives :
         LET link  == SubtitlePageParser_parse(page, BASE_URL)
             r     == IF link.kind # "ok"
                      THEN link
                      ELSE IF is_pack(files_of(zip))
                      THEN Raise("NotImplementedError")
                      ELSE Ok(files_of(zip))
             stage == next_stage("get_subtitle", r, "write")
         IN  /\ html' = page
             /\ requests' = requests \o <<Request("GET", filtered.value[1].url)>>
                               \o (IF link.kind = "ok"
                                   THEN <<Request("GET", link.value)>>
                                   ELSE <<>>)
             /\ parsed' = [parsed EXCEPT !["SubtitlePageParser"] =
                              Call("SubtitlePageParser", link)]
             /\ archive' = IF link.kind = "ok" THEN zip ELSE archive
             /\ pc' = stage
             /\ outcome' = ended(stage, r)
    /\ UNCHANGED <<languageVars, subtitle_url, legacyVars, resolveVars, selectVars, blob, language_code, decoded, output_file>>

\* cli.download, lines 289-303: the output file is opened, the first file of
\* the pack decoded and its text written as UTF-8
WriteOutput ==
    /\ pc = "write"
    /\ LET files == files_of(archive)
           d     == IF Len(files) = 0
                    THEN Raise("IndexError")
                    ELSE decode(files[1].body, language_code)
       IN  /\ blob' = IF Len(files) = 0 THEN blob ELSE files[1].body
           /\ decoded' = IF Len(files) = 0 THEN decoded ELSE Call("decode", d)
           /\ output_file' = [created |-> TRUE,
                              content |-> IF d.kind = "ok"
                                          THEN utf_8_encode(d.value.text)
                                          ELSE <<>>]
           /\ pc' = "done"
           /\ outcome' = Call("download", IF d.kind = "ok" THEN Ok(<<>>) ELSE d)
    /\ UNCHANGED <<languageVars, subtitle_url, legacyVars, parseVars, resolveVars, selectVars, archive, language_code, requests>>

NextDownload == SearchTitles \/ GetTitle \/ GetSubtitle \/ WriteOutput

SpecDownload == InitDownload /\ [][NextDownload]_vars

(***************************************************************************)
(* The language argument (cli.arg_language)                                *)
(***************************************************************************)
MaxDigits == 2    \* longest string of digits given to arg_language

\* str.upper()
UpperChar(c) ==
    IF \E i \in 1..26 : LowerChars[i] = c
    THEN UpperChars[CHOOSE i \in 1..26 : LowerChars[i] = c]
    ELSE c
Upper(s) == [i \in 1..Len(s) |-> UpperChar(s[i])]

\* the members of the LANGUAGES enum: <<name, value>>
LANGUAGES ==
    { <<<<"S", "Q">>, 1>>, <<<<"A", "R">>, 2>>, <<<<"P", "T", "_", "B", "R">>, 4>>, <<<<"B", "G">>, 5>>,
      <<<<"H", "R">>, 8>>, <<<<"C", "S">>, 9>>, <<<<"D", "A">>, 10>>, <<<<"N", "L">>, 11>>,
      <<<<"E", "N">>, 13>>, <<<<"E", "T">>, 16>>, <<<<"F", "I">>, 17>>, <<<<"F", "R">>, 18>>,
      <<<<"D", "E">>, 19>>, <<<<"E", "L">>, 21>>, <<<<"I", "W">>, 22>>, <<<<"H", "U">>, 23>>,
      <<<<"I", "S">>, 25>>, <<<<"I", "T">>, 26>>, <<<<"J", "A">>, 27>>, <<<<"K", "O">>, 28>>,
      <<<<"L", "V">>, 29>>, <<<<"N", "O">>, 30>>, <<<<"P", "L">>, 31>>, <<<<"P", "T">>, 32>>,
      <<<<"R", "O">>, 33>>, <<<<"R", "U">>, 34>>, <<<<"S", "R">>, 35>>, <<<<"S", "K">>, 36>>,
      <<<<"S", "L">>, 37>>, <<<<"E", "S">>, 38>>, <<<<"S", "V">>, 39>>, <<<<"T", "H">>, 40>>,
      <<<<"T", "R">>, 41>>, <<<<"U", "R">>, 42>>, <<<<"L", "T">>, 43>>, <<<<"I", "D">>, 44>>,
      <<<<"V", "I">>, 45>>, <<<<"F", "A">>, 46>>, <<<<"E", "O">>, 47>>, <<<<"M", "K">>, 48>>,
      <<<<"C", "A">>, 49>>, <<<<"M", "S">>, 50>>, <<<<"H", "I">>, 51>>, <<<<"K", "U">>, 52>>,
      <<<<"T", "L">>, 53>>, <<<<"B", "N">>, 54>>, <<<<"A", "Z">>, 55>>, <<<<"U", "K">>, 56>>,
      <<<<"K", "L">>, 57>>, <<<<"S", "I">>, 58>>, <<<<"T", "A">>, 59>>, <<<<"B", "S">>, 60>>,
      <<<<"M", "Y">>, 61>>, <<<<"K", "A">>, 62>>, <<<<"T", "E">>, 63>>, <<<<"M", "L">>, 64>>,
      <<<<"M", "N", "I">>, 65>>, <<<<"P", "A">>, 66>>, <<<<"P", "S">>, 67>>, <<<<"B", "E">>, 68>>,
      <<<<"S", "O">>, 70>>, <<<<"Y", "O">>, 71>>, <<<<"M", "N">>, 72>>, <<<<"H", "Y">>, 73>>,
      <<<<"E", "U">>, 74>>, <<<<"S", "W">>, 75>>, <<<<"S", "U">>, 76>>, <<<<"K", "N">>, 78>>,
      <<<<"K", "M">>, 79>>, <<<<"N", "E">>, 80>> }

\* LANGUAGES(value): the member with the value, ValueError without one
LANGUAGES_by_value(v) ==
    IF \E mem \in LANGUAGES : mem[2] = v
    THEN Ok(CHOOSE mem \in LANGUAGES : mem[2] = v)
    ELSE Raise("ValueError")

\* LANGUAGES[name]: the member with the name, KeyError without one
LANGUAGES_by_name(n) ==
    IF \E mem \in LANGUAGES : mem[1] = n
    THEN Ok(CHOOSE mem \in LANGUAGES : mem[1] = n)
    ELSE Raise("KeyError")

DigitChars == <<"0", "1", "2", "3", "4", "5", "6", "7", "8", "9">>
DigitValue(c) == (CHOOSE i \in 1..10 : DigitChars[i] = c) - 1

\* the value of the digits of s up to position i, underscores skipped
RECURSIVE digits_value(_, _)
digits_value(s, i) ==
    IF i = 0 THEN 0
    ELSE IF s[i] = "_" THEN digits_value(s, i - 1)
    ELSE 10 * digits_value(s, i - 1) + DigitValue(s[i])

\* s is digits with single underscores between them
IsDigits(s) ==
    /\ Len(s) > 0
    /\ \A i \in 1..Len(s) : s[i] \in Digits \/ s[i] = "_"
    /\ s[1] # "_" /\ s[Len(s)] # "_"
    /\ \A i \in 1..(Len(s) - 1) : ~(s[i] = "_" /\ s[i + 1] = "_")

\* the white space int() drops around the literal, among the ASCII
\* characters: U+001C to U+001F are none to it
IsIntSpace(c) == c \in {" ", "\t", "\n", "\r", "\f", VerticalTab}

int_strip(s) ==
    LET I == {i \in 1..Len(s) : ~IsIntSpace(s[i])}
    IN  IF I = {} THEN <<>> ELSE SubSeq(s, SetMin(I), SetMax(I))

\* int(code): white space around the literal is dropped, a sign may lead it
int(s) ==
    LET t    == int_strip(s)
        sign == IF Len(t) > 0 /\ t[1] \in {"+", "-"} THEN 1 ELSE 0
        d    == SubSeq(t, sign + 1, Len(t))
    IN  IF ~IsDigits(d)
        THEN Raise("ValueError")
        ELSE Ok(IF sign = 1 /\ t[1] = "-" THEN 0 - digits_value(d, Len(d))
                ELSE digits_value(d, Len(d)))

\* entries of the ISO 639 table of the iso639 package that arg_language is
\* given here: the ISO 639-1 code and the ISO 639-2/B code of a language,
\* either of them empty for a language that has none
ISO639 ==
    { [part1 |-> <<"e", "n">>, part2b |-> <<"e", "n", "g">>],
      [part1 |-> <<"a", "r">>, part2b |-> <<"a", "r", "a">>],
      [part1 |-> <<"f", "r">>, part2b |-> <<"f", "r", "e">>],
      [part1 |-> <<"p", "t">>, part2b |-> <<"p", "o", "r">>],
      [part1 |-> <<"m", "s">>, part2b |-> <<"m", "a", "y">>],
      [part1 |-> <<"z", "h">>, part2b |-> <<"c", "h", "i">>],
      [part1 |-> <<"h", "e">>, part2b |-> <<"h", "e", "b">>],
      [part1 |-> <<"d", "e">>, part2b |-> <<"g", "e", "r">>],
      [part1 |-> <<"i", "d">>, part2b |-> <<"i", "n", "d">>],
      [part1 |-> <<"t", "l">>, part2b |-> <<"t", "g", "l">>],
      [part1 |-> <<>>, part2b |-> <<"m", "n", "i">>],
      [part1 |-> <<>>, part2b |-> <<"f", "i", "l">>],
      [part1 |-> <<"l", "a">>, part2b |-> <<"l", "a", "t">>],
      [part1 |-> <<>>, part2b |-> <<>>] }

\* languages.get(part1=code): the language with that ISO 639-1 code
languages_get_part1(c) ==
    IF \E l \in ISO639 : l.part1 = c /\ c # <<>>
    THEN Ok(CHOOSE l \in ISO639 : l.part1 = c)
    ELSE Raise("KeyError")

\* languages.get(part2b=code): the language with that ISO 639-2/B code
languages_get_part2b(c) ==
    IF \E l \in ISO639 : l.part2b = c /\ c # <<>>
    THEN Ok(CHOOSE l \in ISO639 : l.part2b = c)
    ELSE Raise("KeyError")

\* cli.arg_language, lines 54-64: the numeric ID; the ValueError of int() and
\* that of LANGUAGES(language_id) are both caught by line 62, a member is
\* always true at line 57
by_numeric_id(c) ==
    IF int(c).kind # "ok"
    THEN Raise("ValueError")
    ELSE IF LANGUAGES_by_value(int(c).value).kind # "ok"
    THEN Raise("ValueError")
    ELSE Ok([id |-> int(c).value, code |-> Lower(LANGUAGES_by_value(int(c).value).value[1])])

\* cli.arg_language, lines 66-82: the ISO code; the KeyError of LANGUAGES[...]
\* at line 77 is outside the try statement
by_iso_code(c) ==
    LET lang == IF Len(c) = 2 THEN languages_get_part1(c) ELSE languages_get_part2b(c)
    IN  IF lang.kind # "ok"
        THEN Raise("ArgumentTypeError")
        ELSE LET available_code == IF lang.value.part1 # <<>>
                                   THEN lang.value.part1
                                   ELSE lang.value.part2b
                 member == LANGUAGES_by_name(Upper(available_code))
             IN  IF member.kind # "ok"
                 THEN member
                 ELSE Ok([id |-> member.value[2], code |-> available_code])

\* cli.arg_language(code)
arg_language(c) ==
    IF c = <<"p", "t", "-", "b", "r">>
    THEN Ok([id |-> LANGUAGES_by_name(<<"P", "T", "_", "B", "R">>).value[2],
             code |-> <<"p", "t">>])
    ELSE IF by_numeric_id(c).kind = "ok"
    THEN by_numeric_id(c)
    ELSE by_iso_code(c)

\* the strings given to arg_language: every string of digits, and codes
DigitStrings == SeqsUpTo(Digits, MaxDigits) \ {<<>>}

CodeStrings ==
    { <<"p", "t", "-", "b", "r">>, <<"m", "n", "i">>, <<"t", "u">>, <<"e", "n">>,
      <<"a", "r">>, <<"z", "h">>, <<"h", "e">>, <<"i", "w">>,
      <<"f", "r", "e">>, <<"e", "n", "g">>, <<"c", "h", "i">>, <<"h", "e", "b">>,
      <<"f", "r", "a">>, <<"f", "i", "l">>, <<"l", "a">>, <<"E", "N">>,
      <<"x", "x">>, <<"+", "2">>, <<" ", "2">>, <<"1", "_", "3">>,
      <<"-", "1">>, <<"p", "t">>, <<"m", "a", "y">>, <<"m", "s">>,
      <<"1", "a">>, <<"a", "b", "c", "d">>, <<VerticalTab, "2">>, <<"2", FileSeparator>> }

InitLanguage ==
    /\ argument \in DigitStrings \cup CodeStrings
    /\ language = NotRun
    /\ InitParseIdle
    /\ InitResolveIdle
    /\ InitSelectIdle
    /\ InitDecodeIdle
    /\ InitDownloadIdle
    /\ InitApiIdle /\ InitLegacyIdle

\* argparse calls arg_language on the language argument (cli.py:313-317)
ArgLanguage ==
    /\ language' = Call("arg_language", arg_language(argument))
    /\ UNCHANGED <<argument, subtitle_url, legacyVars, parseVars, resolveVars, selectVars,
                   decodeVars, downloadVars>>

NextLanguage == ArgLanguage

SpecLanguage == InitLanguage /\ [][NextLanguage]_vars

(***************************************************************************)
(* Subscene.download (subscene/api.py)                                     *)
(***************************************************************************)
\* str.split(sep) from position i on, cur the segment being read
RECURSIVE split_from(_, _, _, _)
split_from(s, sep, i, cur) ==
    IF i > Len(s)
    THEN <<cur>>
    ELSE IF s[i] = sep
    THEN <<cur>> \o split_from(s, sep, i + 1, <<>>)
    ELSE split_from(s, sep, i + 1, Append(cur, s[i]))

split(s, sep) == split_from(s, sep, 1, <<>>)

\* sep.join(parts)
RECURSIVE join(_, _)
join(sep, parts) ==
    IF Len(parts) = 0 THEN <<>>
    ELSE IF Len(parts) = 1 THEN parts[1]
    ELSE parts[1] \o <<sep>> \o join(sep, Tail(parts))

\* list[0:n]
slice_to(list, n) == SubSeq(list, 1, IF Len(list) < n THEN Len(list) ELSE n)

\* a URL of the site: urlparse(url).path is its path
SiteUrl(path) == [base |-> BASE_URL, path |-> path]

\* Subscene.download, line 292: the URL of the title page of a subtitle page
title_url_of(u) == SiteUrl(join("/", slice_to(split(u.path, "/"), 3)))

\* Subscene._get(url, headers=dict(Referer=referer))
Get(u, referer) == [method |-> "GET", url |-> u, referer |-> referer]

\* Subscene.download, line 298: parser.data.  No class of htmlparse.py sets
\* an attribute data, parse() returns its result, which line 296 drops
parser_data(returned) == Raise("AttributeError")

\* Subscene.download(url) when the subtitle page answers with page and the
\* download link with zip: the requests issued, what parse() of the
\* SubtitlePageParser returned or raised, and the result of the call
api_download(u, page, zip) ==
    LET first        == Get(u, title_url_of(u))
        link         == SubtitlePageParser_parse(page, BASE_URL)
        download_url == IF link.kind \in {"ok", "None"} THEN parser_data(link) ELSE link
    IN  IF download_url.kind \notin {"ok", "None"}
        THEN [requests |-> <<first>>, link |-> link, fetched |-> FALSE,
              result |-> download_url]
        ELSE IF download_url.kind = "None"
        THEN [requests |-> <<first>>, link |-> link, fetched |-> FALSE,
              result |-> None]
        ELSE [requests |-> <<first, Get(download_url.value, u)>>, link |-> link,
              fetched |-> TRUE, result |-> _extract_sub(zip)]

\* the subtitle page URLs given to Subscene.download: /subtitles/<title>/
\* <language>/<id>, and a path of one segment
SubtitlePaths ==
    {join("/", <<<<>>, <<"s", "u", "b", "t", "i", "t", "l", "e", "s">>, t, l, i>>) :
        t \in {<<"u", "p">>, <<"i", "t">>, <<"u", "s">>},
        l \in {<<"e", "n", "g", "l", "i", "s", "h">>, <<"a", "r", "a", "b", "i", "c">>},
        i \in {<<"1">>, <<"2">>, <<"3">>}}
        \cup {<<"/", "s">>}

InitApi ==
    /\ subtitle_url \in {SiteUrl(p) : p \in SubtitlePaths}
    /\ InitParseIdle
    /\ InitResolveIdle
    /\ InitSelectIdle
    /\ InitDecodeIdle
    /\ InitDownloadIdle
    /\ InitLanguageIdle /\ InitLegacyIdle

\* Subscene.download(url), lines 279-303
Download ==
    /\ outcome = NotRun
    /\ \E page \in SubtitlePages, zip \in PipelineArchives :
         LET d == api_download(subtitle_url, page, zip)
         IN  /\ html' = page
             /\ parsed' = [parsed EXCEPT !["SubtitlePageParser"] =
                              Call("SubtitlePageParser", d.link)]
             /\ requests' = d.requests
             /\ archive' = IF d.fetched THEN zip ELSE archive
             /\ decoded' = IF d.fetched THEN Call("_extract_sub", d.result) ELSE decoded
             /\ outcome' = Call("Subscene.download", d.result)
    /\ UNCHANGED <<languageVars, subtitle_url, legacyVars, resolveVars, selectVars,
                   blob, language_code, pc, output_file>>

NextApi == Download

SpecApi == InitApi /\ [][NextApi]_vars

(***************************************************************************)
(* The legacy title page parser (utils.MoviePageParser)                    *)
(*                                                                         *)
(* html.parser.HTMLParser.feed calls handle_starttag, handle_data and      *)
(* handle_endtag of the parser, one call for each event of the document.   *)
(* LOCATIONS and RATING are named by their keys; None is "None".           *)
(***************************************************************************)
MaxTableRows == 2    \* most <tr> start tags of a document

\* re.search(pattern, name, flags=re.IGNORECASE) for a pattern that is an
\* alternation of plain words
search_words(words, name) == \E w \in words : Contains(Lower(name), w)

\* MoviePageParser.check_subtitle: True, False, or None where the method
\* falls off its end
check_subtitle(sub, src) ==
    IF sub.name.kind = "None" \/ sub.name.value = <<>>
    THEN "False"
    ELSE IF sub.rating # "POSITIVE"
    THEN "False"
    ELSE IF src \in {"None", ""}
    THEN "True"
    ELSE IF src = "br"
    THEN IF search_words({<<"b", "l", "u", "r", "a", "y">>, <<"b", "r", "r", "i", "p">>, <<"b", "d", "r", "i", "p">>}, sub.name.value)
         THEN "True" ELSE "None"
    ELSE IF src = "web"
    THEN IF search_words({<<"w", "e", "b", "r", "i", "p">>, <<"w", "e", "b", "-", "d", "l">>}, sub.name.value)
         THEN "True" ELSE "None"
    ELSE "False"

\* MoviePageParser.get_subtitle_url
get_subtitle_url(sub, src) ==
    IF check_subtitle(sub, src) = "True" THEN sub.url ELSE None

\* the attributes of a start tag: class and href, each of them given or not
Attrs(c, h) == [has_class |-> c.kind = "ok", class |-> c.value,
                has_href  |-> h.kind = "ok", href  |-> IF h.kind = "ok" THEN h.value ELSE ""]

\* handle_starttag, lines 39-40: the selection is accepted already
accepted(sub, src) == check_subtitle(sub, src) = "True"

\* MoviePageParser.handle_starttag(tag, attrs): the location, the subtitle
\* and the exception raised after the call
handle_starttag(loc, sub, src, tag, attrs) ==
    LET same == [location |-> loc, subtitle |-> sub, raised |-> "None"]
    IN  IF accepted(sub, src)
        THEN same
        ELSE CASE tag = "tbody" -> [same EXCEPT !.location = "TBODY"]
               [] tag = "tr" ->
                    IF loc = "TBODY" THEN [same EXCEPT !.location = "TR"] ELSE same
               [] tag = "td" ->
                    IF loc = "TR" /\ attrs.has_class /\ attrs.class = <<"a", "1">>
                    THEN [same EXCEPT !.location = "TD_FIRST"]
                    ELSE same
               [] tag = "a" ->
                    IF loc # "TD_FIRST"
                    THEN same
                    ELSE IF ~attrs.has_href
                    THEN [same EXCEPT !.raised = "KeyError"]
                    ELSE [same EXCEPT !.subtitle.url = Ok(urljoin(BASE_URL, attrs.href))]
               [] tag = "span" ->
                    IF loc # "TD_FIRST"
                    THEN same
                    ELSE IF attrs.has_class /\ attrs.class # <<>>
                    THEN IF Contains(attrs.class, <<"p", "o", "s", "i", "t", "i", "v", "e">>)
                         THEN [same EXCEPT !.subtitle.rating = "POSITIVE"]
                         ELSE [same EXCEPT !.subtitle.rating = "NEUTRAL"]
                    ELSE [same EXCEPT !.location = "NAME"]
               [] OTHER -> same

\* MoviePageParser.handle_data(data)
handle_data(loc, sub, data) ==
    IF loc = "NAME" THEN [sub EXCEPT !.name = Ok(strip(data))] ELSE sub

\* MoviePageParser.handle_endtag(tag): the location after the call
handle_endtag(loc, tag) ==
    CASE tag = "tbody" -> "None"
      [] tag = "tr"    -> "TBODY"
      [] tag = "td"    -> IF loc # "None" THEN "TR" ELSE loc
      [] tag = "span"  -> IF loc = "NAME" THEN "TR" ELSE loc
      [] OTHER         -> loc

\* the events of a document
Tags == {"tbody", "tr", "td", "a", "span", "div"}

TagClasses == {None, Ok(<<>>), Ok(<<"a", "1">>),
               Ok(<<"p", "o", "s", "i", "t", "i", "v", "e", "-", "i", "c", "o", "n">>),
               Ok(<<"n", "e", "u", "t", "r", "a", "l", "-", "i", "c", "o", "n">>)}

TagHrefs == {None, Ok("/subtitles/up/english/1"), Ok("/subtitles/up/english/2")}

DataTexts == { <<" ", "a", ".", "B", "l", "u", "R", "a", "y", VerticalTab>>,
               <<"b", ".", "W", "E", "B", "R", "i", "p">>,
               <<" ">> }

\* the start tags of a document: a class on td and span, an href on a
StartTags ==
    {<<tag, Attrs(c, None)>> : tag \in {"td", "span"}, c \in TagClasses}
        \cup {<<"a", Attrs(None, h)>> : h \in TagHrefs}
        \cup {<<tag, Attrs(None, None)>> : tag \in {"tbody", "tr", "div"}}

\* subtitle_type: None, the empty str, the two release types, and another
Sources == {"None", "", "br", "web", "dvd"}

InitLegacy ==
    /\ source \in Sources
    /\ location = "None"
    /\ self_subtitle = NoSubtitle
    /\ row = 0 /\ origin = NoOrigin /\ raised = "None"
    /\ InitParseIdle
    /\ InitResolveIdle
    /\ InitSelectIdle
    /\ InitDecodeIdle
    /\ InitDownloadIdle
    /\ InitLanguageIdle /\ InitApiIdle

\* the fields of the subtitle that handle_starttag assigns
starttag_assigns(loc, sub, src, tag, attrs) ==
    IF accepted(sub, src) \/ loc # "TD_FIRST"
    THEN {}
    ELSE CASE tag = "a" /\ attrs.has_href -> {"url"}
           [] tag = "span" /\ attrs.has_class /\ attrs.class # <<>> -> {"rating"}
           [] OTHER -> {}

\* the rows the fields of the subtitle were read in, after a handler assigned
\* the given fields during row r
origin_after(fields, r) ==
    [f \in {"url", "rating", "name"} |-> IF f \in fields THEN r ELSE origin[f]]

\* feed: a start tag
HandleStartTag ==
    /\ raised = "None"
    /\ \E start \in StartTags :
         LET tag   == start[1]
             attrs == start[2]
             r     == IF tag = "tr" THEN row + 1 ELSE row
             next  == handle_starttag(location, self_subtitle, source, tag, attrs)
         IN  /\ r <= MaxTableRows
             /\ row' = r
             /\ location' = next.location
             /\ self_subtitle' = next.subtitle
             /\ raised' = next.raised
             /\ origin' = origin_after(starttag_assigns(location, self_subtitle, source,
                                                         tag, attrs), r)
    /\ UNCHANGED <<source, languageVars, subtitle_url, parseVars, resolveVars, selectVars,
                   decodeVars, downloadVars>>

\* feed: character data
HandleData ==
    /\ raised = "None"
    /\ \E data \in DataTexts :
         LET next == handle_data(location, self_subtitle, data)
         IN  /\ self_subtitle' = next
             /\ origin' = origin_after(IF location = "NAME" THEN {"name"} ELSE {}, row)
    /\ UNCHANGED <<source, location, row, raised, languageVars, subtitle_url, parseVars,
                   resolveVars, selectVars, decodeVars, downloadVars>>

\* feed: an end tag
HandleEndTag ==
    /\ raised = "None"
    /\ \E tag \in Tags : location' = handle_endtag(location, tag)
    /\ UNCHANGED <<source, self_subtitle, row, origin, raised, languageVars, subtitle_url,
                   parseVars, resolveVars, selectVars, decodeVars, downloadVars>>

NextLegacy == HandleStartTag \/ HandleData \/ HandleEndTag

SpecLegacy == InitLegacy /\ [][NextLegacy]_vars

(***************************************************************************)
(* Properties of the title resolver (SpecResolve)                          *)
(***************************************************************************)
Resolved == matched.op \in {"match_title", "_match_movie"}

\* the resolver returned the record m of the result set
Got(m) ==
    /\ matched.kind = "ok"
    /\ matched.value = (IF matched.op = "match_title" THEN m ELSE ApiEntry(m))

HasList(k) == k \in DOMAIN results

\* positions of the items of category k that carry the year of the query
SameYear(k) == {i \in 1..Len(results[k]) : results[k][i].year = year}

SimilarityAt(i) == jaro_winkler(results["close"][i].title, title)

\* positions of the same-year close items no other same-year close item outscores
BestClose == {i \in SameYear("close") :
                \A j \in SameYear("close") : SimilarityAt(j) <= SimilarityAt(i)}

\* the call gets past the exact category: exact is empty, or has several
\* items none of which carries the year of the query
PastExact ==
    /\ HasList("exact")
    /\ Len(results["exact"]) # 1
    /\ SameYear("exact") = {}

\* C2: when the exact category holds exactly one entry the resolver returns
\* that entry, for every query title and year and whatever close and popular
\* hold
C2_SingleExactReturned ==
    (Resolved /\ HasList("exact") /\ Len(results["exact"]) = 1)
        => Got(results["exact"][1])

\* the single exact entry is returned although its year is not the year of the
\* query and a close entry of that year equals the query title
C2_Witness ==
    /\ Resolved
    /\ HasList("exact") /\ Len(results["exact"]) = 1
    /\ results["exact"][1].year # year
    /\ HasList("close")
    /\ \E i \in SameYear("close") : results["close"][i].title = title
    /\ HasList("popular") /\ results["popular"] # <<>>
    /\ Got(results["exact"][1])

\* C3: when the exact category holds more than one entry and some of them
\* carry the query year, the resolver returns the first of these in list
\* order; the close category is not consulted (it may even be missing)
C3_FirstExactOfYear ==
    (Resolved /\ HasList("exact") /\ Len(results["exact"]) > 1 /\ SameYear("exact") # {})
        => Got(results["exact"][SetMin(SameYear("exact"))])

\* two exact entries of the query year, no close category: the first is returned
C3_Witness ==
    /\ Resolved
    /\ HasList("exact") /\ Len(results["exact"]) > 1
    /\ Cardinality(SameYear("exact")) > 1
    /\ ~HasList("close")
    /\ Got(results["exact"][SetMin(SameYear("exact"))])

\* C4: when the exact category holds two or more entries and none of them
\* carries the query year, the result is None whatever close holds
C4_NoMatchWithoutExactYear ==
    (Resolved /\ HasList("exact") /\ Len(results["exact"]) > 1 /\ SameYear("exact") = {})
        => matched.kind = "None"

\* C5: every entry the resolver returns from the close category carries the
\* query year, however high the score of a close entry of another year is
C5_CloseResultHasQueryYear ==
    (Resolved /\ HasList("close"))
        => \A i \in 1..Len(results["close"]) :
              Got(results["close"][i]) => results["close"][i].year = year

\* a close entry is returned while a close entry of another year outscores it
C5_Witness ==
    /\ Resolved
    /\ HasList("close")
    /\ \E i, j \in 1..Len(results["close"]) :
          /\ Got(results["close"][i])
          /\ results["close"][j].year # year
          /\ SimilarityAt(j) > SimilarityAt(i)

\* C6 as claimed: when the resolver reaches the close category and close
\* entries of the query year exist, it returns the first of those with the
\* maximum similarity score
C6_BestCloseReturned ==
    (Resolved /\ PastExact /\ HasList("close") /\ SameYear("close") # {})
        => Got(results["close"][SetMin(BestClose)])

\* C7: the resolver never returns a popular entry: a result is an entry of the
\* exact or of the close list, and with both lists empty the result is None
C7_NeverPopular ==
    Resolved =>
        /\ matched.kind = "ok" =>
              \E k \in {"exact", "close"} \cap DOMAIN results :
                  \E i \in 1..Len(results[k]) : Got(results[k][i])
        /\ (/\ HasList("exact") /\ results["exact"] = <<>>
            /\ HasList("close") /\ results["close"] = <<>>)
              => matched.kind = "None"

\* exact and close are empty, popular is not, and the result is None
C7_Witness ==
    /\ Resolved
    /\ HasList("exact") /\ results["exact"] = <<>>
    /\ HasList("close") /\ results["close"] = <<>>
    /\ HasList("popular") /\ results["popular"] # <<>>
    /\ matched.kind = "None"

\* C26 as claimed: when the resolver reaches the close category and close
\* entries of the query year exist, the result is one of the highest-scoring
\* of them and never None, whatever the scores are, all 0 included
C26_SameYearCloseNeverNone ==
    (Resolved /\ PastExact /\ HasList("close") /\ SameYear("close") # {})
        => /\ matched.kind # "None"
           /\ \E i \in BestClose : Got(results["close"][i])

\* no list of exact or close yields a candidate: each is absent or empty
NoCandidate == \A k \in {"exact", "close"} : ~HasList(k) \/ results[k] = <<>>

\* C27 as claimed: the resolver raises no error for any result set of the
\* search extractor, and returns None when neither exact nor close yields a
\* candidate, an absent exact or close key included
C27_AbsentCategoryGivesNone ==
    Resolved => /\ matched.kind \in {"ok", "None"}
                /\ NoCandidate => matched.kind = "None"

(***************************************************************************)
(* Properties of the subtitle filters (SpecSelect)                         *)
(***************************************************************************)
\* the ordinal scale bad < neutral < positive
RankOf == [bad |-> 0, neutral |-> 1, positive |-> 2]

\* every record carries a rating of the scale
OnScale(subs) == \A i \in 1..Len(subs) : subs[i].rating \in RATING

\* a is b with some items left out
IsSubsequence(a, b) ==
    \E f \in [1..Len(a) -> 1..Len(b)] :
        /\ \A i, j \in 1..Len(a) : i < j => f[i] < f[j]
        /\ \A i \in 1..Len(a) : a[i] = b[f[i]]

UrlsOf(subs) == {subs[i].url : i \in 1..Len(subs)}

\* c and d are the same character or the two cases of one letter
SameLetter(c, d) ==
    \/ c = d
    \/ \E i \in 1..Len(UpperChars) : {c, d} = {UpperChars[i], LowerChars[i]}

\* tag occurs in name when the case of letters is ignored
OccursIgnoringCase(tag, name) ==
    \E o \in 0..(Len(name) - Len(tag)) :
        \A k \in 1..Len(tag) : SameLetter(name[o + k], tag[k])

\* C8: filter_by_rating(subs, min) returns exactly the subsequence of subs
\* rated min or better on bad < neutral < positive, in the original order:
\* with min = neutral the entries rated neutral or positive, with min = bad
\* the whole list
C8_RatingFilterExact ==
    (filtered.op = "filter_by_rating" /\ OnScale(subtitles))
        => /\ filtered.kind = "ok"
           /\ filtered.value =
                 SelectSeq(subtitles, LAMBDA sub : RankOf[sub.rating] >= RankOf[min_rating])
           /\ min_rating = "neutral"
                 => filtered.value =
                       SelectSeq(subtitles, LAMBDA sub : sub.rating \in {"neutral", "positive"})
           /\ min_rating = "bad" => filtered.value = subtitles

\* the default min drops a bad entry and keeps the neutral entry after it
C8_Witness ==
    /\ filtered.op = "filter_by_rating"
    /\ min_rating = "neutral"
    /\ Len(subtitles) = 2
    /\ subtitles[1].rating = "bad"
    /\ subtitles[2].rating = "neutral"
    /\ filtered.kind = "ok"
    /\ filtered.value = <<subtitles[2]>>

\* C9: the result of filter_by_rating for a min is a subset (by URL, and as a
\* subsequence) of its result for every lower min, and is not longer:
\* positive within neutral within bad
C9_RatingFilterMonotone ==
    (filtered.op = "filter_by_rating" /\ OnScale(subtitles))
        => /\ filtered.kind = "ok"
           /\ \A lower \in RATING :
                 RankOf[lower] <= RankOf[min_rating]
                    => LET wider == filter_by_rating(subtitles, lower)
                       IN  /\ wider.kind = "ok"
                           /\ IsSubsequence(filtered.value, wider.value)
                           /\ UrlsOf(filtered.value) \subseteq UrlsOf(wider.value)
                           /\ Len(filtered.value) <= Len(wider.value)

\* the three results are strictly nested: nothing for positive, one entry for
\* neutral, both entries for bad
C9_Witness ==
    /\ filtered.op = "filter_by_rating"
    /\ min_rating = "positive"
    /\ OnScale(subtitles)
    /\ filtered.kind = "ok"
    /\ Len(filtered.value) < Len(filter_by_rating(subtitles, "neutral").value)
    /\ Len(filter_by_rating(subtitles, "neutral").value)
          < Len(filter_by_rating(subtitles, "bad").value)

\* C10: filter_by_tags keeps a subtitle if and only if every tag occurs in its
\* name when case is ignored, in the original order; with no tag the result
\* is the input list
C10_TagFilterConjunctive ==
    filtered.op = "filter_by_tags"
        => /\ filtered.kind = "ok"
           /\ filtered.value =
                 SelectSeq(subtitles,
                           LAMBDA sub : \A i \in 1..Len(tags) :
                                           OccursIgnoringCase(tags[i], sub.name))
           /\ tags = <<>> => filtered.value = subtitles

\* of two tags one subtitle matches only the first and is dropped, the other
\* matches both, one of them in another case, and is kept
C10_Witness ==
    /\ filtered.op = "filter_by_tags"
    /\ Len(tags) = 2
    /\ Len(subtitles) = 2
    /\ OccursIgnoringCase(tags[1], subtitles[1].name)
    /\ ~OccursIgnoringCase(tags[2], subtitles[1].name)
    /\ OccursIgnoringCase(tags[1], subtitles[2].name)
    /\ OccursIgnoringCase(tags[2], subtitles[2].name)
    /\ ~Contains(subtitles[2].name, tags[2])
    /\ filtered.value = <<subtitles[2]>>

\* the subtitle passes the tag filter and the default rating filter
Eligible(sub) ==
    /\ \A i \in 1..Len(tags) : OccursIgnoringCase(tags[i], sub.name)
    /\ sub.rating \in {"neutral", "positive"}

\* C11: the selection of the pipeline (filter_by_tags, then filter_by_rating)
\* does not reorder: its result is a subsequence of the extractor's list, and
\* element 0, the subtitle downloaded, is the earliest entry of that list
\* that passes both filters; with every rating on the scale and some entry
\* passing both filters there is such a result
C11_SelectionKeepsOrder ==
    filtered.op = "select_subtitles"
        => /\ filtered.kind = "ok"
                 => /\ IsSubsequence(filtered.value, subtitles)
                    /\ \E i \in 1..Len(subtitles) : Eligible(subtitles[i])
                    /\ filtered.value[1] =
                          subtitles[SetMin({i \in 1..Len(subtitles) : Eligible(subtitles[i])})]
           /\ (OnScale(subtitles) /\ \E i \in 1..Len(subtitles) : Eligible(subtitles[i]))
                 => filtered.kind = "ok"

\* two entries pass both filters, a neutral one before a positive one: the
\* neutral one is element 0
C11_Witness ==
    /\ filtered.op = "select_subtitles"
    /\ filtered.kind = "ok"
    /\ Len(tags) = 1
    /\ Len(subtitles) = 2
    /\ subtitles[1].rating = "neutral"
    /\ subtitles[2].rating = "positive"
    /\ filtered.value = subtitles

(***************************************************************************)
(* Properties of the parsers (SpecParse)                                   *)
(***************************************************************************)
\* the document carries the throttling phrase, in any case of letters
HasThrottlingPhrase(h) ==
    OccursIgnoringCase(<<"t", "o", "o", " ", "m", "a", "n", "y", " ", "r", "e", "q", "u", "e", "s", "t", "s">>, h.text)

\* C1: parse() of each of the three parsers on a document that contains the
\* throttling phrase fails with TooManyRequestsError, whatever category
\* lists, no-results marker, subtitle rows or download anchor the document
\* holds; no record set is returned
C1_ThrottledDocumentFails ==
    \A p \in Parsers :
        (parsed[p].op = p /\ HasThrottlingPhrase(html))
            => parsed[p].kind = "TooManyRequestsError"

\* a title page with the phrase, the no-results marker and a well-formed row:
\* the three parsers fail with TooManyRequestsError
C1_Witness ==
    /\ OccursIgnoringCase(<<"t", "o", "o", " ", "m", "a", "n", "y", " ", "r", "e", "q", "u", "e", "s", "t", "s">>, html.text)
    /\ Len(html.empty) = 1 /\ html.empty[1] # <<>>
    /\ Len(html.rows) = 1 /\ _parse_rating(html.rows[1].class).kind = "ok"
    /\ \A p \in Parsers : parsed[p].op = p /\ parsed[p].kind = "TooManyRequestsError"

\* C12 as stated: parse() of TitlePageParser on a document that carries the
\* no-results marker (a td.empty cell with its text) returns an empty list
\* and does not fail
C12_MarkerAlwaysEmptyList ==
    (/\ parsed["TitlePageParser"].op = "TitlePageParser"
     /\ Len(html.empty) = 1
     /\ html.empty[1] # <<>>)
        => /\ parsed["TitlePageParser"].kind = "ok"
           /\ parsed["TitlePageParser"].value = <<>>

\* C12, amended: the marker is read after the throttling check and before the
\* rows; on a document THROTTLE_PATTERN does not match that carries one
\* marker with a non-empty text, parse() returns an empty list and does not
\* fail, whatever rows the document holds
C12_MarkerBeforeRows ==
    (/\ parsed["TitlePageParser"].op = "TitlePageParser"
     /\ ~throttled(html.text)
     /\ Len(html.empty) = 1
     /\ html.empty[1] # <<>>)
        => /\ parsed["TitlePageParser"].kind = "ok"
           /\ parsed["TitlePageParser"].value = <<>>

\* a marker together with two rows, one of a well-formed icon class and one
\* whose class would make _parse_rating fail: the result is the empty list
C12_Witness ==
    /\ parsed["TitlePageParser"].op = "TitlePageParser"
    /\ ~throttled(html.text)
    /\ Len(html.empty) = 1 /\ html.empty[1] # <<>>
    /\ Len(html.rows) = 2
    /\ _parse_rating(html.rows[1].class).kind = "ok"
    /\ _parse_rating(html.rows[2].class).kind = "ParsingError"
    /\ parsed["TitlePageParser"].kind = "ok"
    /\ parsed["TitlePageParser"].value = <<>>

\* C13: every rating that TitlePageParser.parse returns, the value of
\* _parse_rating for the icon class of the row, is one of the tokens bad,
\* neutral, positive of the rating scale of filter_by_rating
C13_RatingIsScaleToken ==
    (parsed["TitlePageParser"].op = "TitlePageParser" /\ parsed["TitlePageParser"].kind = "ok")
        => \A i \in 1..Len(parsed["TitlePageParser"].value) :
              parsed["TitlePageParser"].value[i].rating \in RatingWords

\* the categories whose container is in the document
Present(h) == {k \in Categories : Len(h.sections[k]) > 0}

\* C14: TitleSearchResultsParser.parse returns a key for exactly the
\* categories whose container is in the markup, each with its items in
\* document order; an absent category is no key, a document with a popular
\* section only has no exact and no close key, and a document with no
\* container gives an empty result
C14_KeysArePresentCategories ==
    (/\ parsed["TitleSearchResultsParser"].op = "TitleSearchResultsParser"
     /\ ~throttled(html.text))
        => LET data == parsed["TitleSearchResultsParser"].value
           IN  /\ parsed["TitleSearchResultsParser"].kind = "ok"
               /\ DOMAIN data = Present(html)
               /\ \A k \in Present(html) :
                     /\ Len(data[k]) = Len(html.sections[k][1])
                     /\ \A i \in 1..Len(data[k]) :
                           data[k][i].url.href = html.sections[k][1][i].href
               /\ Present(html) = {"popular"}
                     => "exact" \notin DOMAIN data /\ "close" \notin DOMAIN data
               /\ Present(html) = {} => DOMAIN data = {}

\* a page with two exact items and one popular item and no close container:
\* the result has the two keys, the exact items in page order
C14_Witness ==
    /\ parsed["TitleSearchResultsParser"].op = "TitleSearchResultsParser"
    /\ parsed["TitleSearchResultsParser"].kind = "ok"
    /\ Present(html) = {"exact", "popular"}
    /\ Len(html.sections["exact"][1]) = 2
    /\ html.sections["exact"][1][1].text # html.sections["exact"][1][2].text
    /\ DOMAIN parsed["TitleSearchResultsParser"].value = {"exact", "popular"}
    /\ Len(parsed["TitleSearchResultsParser"].value["exact"]) = 2

\* C15: SubtitlePageParser.parse on a document without a download anchor
\* (and without the throttling phrase) returns None and raises nothing
C15_NoAnchorGivesNone ==
    (/\ parsed["SubtitlePageParser"].op = "SubtitlePageParser"
     /\ ~throttled(html.text)
     /\ Len(html.download) = 0)
        => parsed["SubtitlePageParser"].kind = "None"

(***************************************************************************)
(* Properties of the decoders (SpecDecode)                                 *)
(***************************************************************************)
\* the ordered chain of encodings for Arabic
ArabicChain == <<"utf-8-sig", "windows-1256", "utf-16">>

\* the places of the chain whose encoding decodes the bytes
Succeeding(b) == {i \in 1..Len(ArabicChain) : bytes_decode(b, ArabicChain[i]).kind = "ok"}

\* C17: decode(blob, "ar") returns the text of the first encoding of the
\* chain utf-8-sig, windows-1256, utf-16 that decodes the blob, blob.decode
\* having been called with that encoding and the ones before it only; it
\* fails exactly when none of the three decodes the blob
C17_FirstEncodingThatSucceeds ==
    (decoded.op = "decode" /\ language_code = "ar")
        => /\ Succeeding(blob) # {}
                 => /\ decoded.kind = "ok"
                    /\ decoded.value.text =
                          bytes_decode(blob, ArabicChain[SetMin(Succeeding(blob))]).value
                    /\ decoded.value.tried =
                          SubSeq(ArabicChain, 1, SetMin(Succeeding(blob)))
           /\ Succeeding(blob) = {} <=> decoded.kind = "ValueError"

\* bytes that are no UTF-8 and mean other things in windows-1256 and utf-16:
\* the text is the one of windows-1256, utf-16 was not tried
C17_Witness ==
    /\ decoded.op = "decode"
    /\ language_code = "ar"
    /\ Succeeding(blob) = {2, 3}
    /\ bytes_decode(blob, "windows-1256").value # bytes_decode(blob, "utf-16").value
    /\ decoded.kind = "ok"
    /\ decoded.value.text = bytes_decode(blob, "windows-1256").value
    /\ decoded.value.tried = <<"utf-8-sig", "windows-1256">>

\* the entries of the archive whose name ends in .srt: _extract_sub reads
\* the file of the first of these names
SrtFiles == {i \in 1..Len(archive) : endswith(archive[i].name, <<".", "s", "r", "t">>)}

\* C18: for a language other than Arabic, bytes that are no valid UTF-8 make
\* the decoding fail at once: cli.decode after utf-8-sig alone, _extract_sub
\* with the UnicodeDecodeError, and no text is returned
C18_NoFallbackOutsideArabic ==
    /\ (decoded.op = "decode" /\ language_code # "ar" /\ utf_8_decode(blob).kind # "ok")
          => /\ decoded.kind = "ValueError"
             /\ decoded.value.tried = <<"utf-8-sig">>
    /\ (/\ decoded.op = "_extract_sub" /\ language_code # "ar"
        /\ SrtFiles # {}
        /\ utf_8_decode(zip_open(archive, archive[SetMin(SrtFiles)].name)).kind # "ok")
          => decoded.kind = "UnicodeDecodeError"

\* C19: an Arabic text encoded as UTF-8, with or without a BOM, and stored as
\* the one .srt file of an archive comes back unchanged from _extract_sub,
\* and from decode for the language "ar" on the bytes of the file
C19_RoundTrip ==
    \A s \in ArabicTexts :
        \A bytes \in {utf_8_encode(s), utf_8_sig_encode(s)} :
            /\ (/\ decoded.op = "_extract_sub"
                /\ archive = <<[name |-> <<"a", ".", "s", "r", "t">>, body |-> bytes]>>)
                  => decoded.kind = "ok" /\ decoded.value = s
            /\ (decoded.op = "decode" /\ language_code = "ar" /\ blob = bytes)
                  => decoded.kind = "ok" /\ decoded.value.text = s

\* alef and the right-to-left mark, encoded with a BOM, decoded for "ar"
C19_Witness ==
    /\ decoded.op = "decode"
    /\ language_code = "ar"
    /\ blob = utf_8_sig_encode(<<1575, 8207>>)
    /\ decoded.kind = "ok"
    /\ decoded.value.text = <<1575, 8207>>

\* the entries of the archive whose name ends in a subtitle suffix
Qualifying == {i \in 1..Len(archive) : qualifies(archive[i].name)}

\* the number of entries a call of _extract_sub yielded: one text, or None
Yielded == IF decoded.kind = "ok" THEN 1 ELSE 0

\* C25 as claimed: the payload retriever yields every entry of the archive
\* whose name ends in a subtitle suffix: the file of an archive whose only
\* subtitle file is no .srt, and all of several qualifying entries
C25_EveryQualifyingEntryCollected ==
    decoded.op = "_extract_sub" => Yielded = Cardinality(Qualifying)

(***************************************************************************)
(* Properties of the pipeline (SpecDownload)                               *)
(***************************************************************************)
\* C16: when the archive of the chosen subtitle holds more than one
\* subtitle file, cli.download ends with NotImplementedError: no file is
\* decoded and the output file is neither created nor written
C16_PackRefused ==
    Len(files_of(archive)) > 1
        => /\ pc = "done"
           /\ outcome.kind = "NotImplementedError"
           /\ decoded = NotRun
           /\ output_file = NoFile

\* an archive of two subtitle files was fetched with the fourth request
C16_Witness ==
    /\ Len(files_of(archive)) = 2
    /\ Len(requests) = 4
    /\ outcome.kind = "NotImplementedError"
    /\ output_file = NoFile

\* a parser found the throttling phrase in the page of a request
RateLimited == \E p \in Parsers : parsed[p].kind = "TooManyRequestsError"

\* C20: once a page is detected as rate-limited the run of cli.download has
\* ended with TooManyRequestsError, having written no output file, and from
\* then on no request is issued and no output file is written
C20_RateLimitEndsRun ==
    /\ [](RateLimited => /\ pc = "done"
                         /\ outcome.kind = "TooManyRequestsError"
                         /\ output_file = NoFile)
    /\ [][RateLimited => (requests' = requests /\ output_file' = output_file)]_vars

\* the title page, the answer to the second request, is the rate-limited one
C20_Witness ==
    /\ parsed["TitlePageParser"].kind = "TooManyRequestsError"
    /\ Len(requests) = 2
    /\ pc = "done"
    /\ outcome.kind = "TooManyRequestsError"
    /\ output_file = NoFile

\* the run ended in an exit of cli.error
SoftFailure == outcome.kind = "SystemExit"

\* the subtitles of the title page every tag occurs in, and those of them
\* rated neutral or better
TaggedOnPage == SelectSeq(subtitles, LAMBDA sub :
                    \A i \in 1..Len(tags) : OccursIgnoringCase(tags[i], sub.name))
RatedOnPage  == SelectSeq(TaggedOnPage, LAMBDA sub : sub.rating \in {"neutral", "positive"})

\* the message of the first soft failure of the run so far, "" when there is none
FirstSoftFailure ==
    IF matched.kind = "None" THEN "Title not found"
    ELSE IF parsed["TitlePageParser"].kind # "ok" THEN ""
    ELSE IF subtitles = <<>> THEN "No subtitles"
    ELSE IF TaggedOnPage = <<>> THEN "No subtitles matched tags"
    ELSE IF RatedOnPage = <<>> THEN "No matching subtitles with 'neutral' or better rating"
    ELSE ""

\* C21: cli.download exits at the first soft failure, in the order no title,
\* no subtitles, none after the tag filter, none after the rating filter, each
\* with its own message; the title page is not requested when no title
\* matched, and after the exit no stage runs, no subtitle page or archive is
\* requested and no output file is written
C21_StopsAtFirstSoftFailure ==
    /\ [](FirstSoftFailure # "" => /\ SoftFailure
                                   /\ outcome.value = FirstSoftFailure)
    /\ [](SoftFailure => /\ pc = "done"
                         /\ outcome.value = FirstSoftFailure
                         /\ Len(requests) = (IF matched.kind = "None" THEN 1 ELSE 2)
                         /\ parsed["SubtitlePageParser"] = NotRun
                         /\ archive = <<>> /\ decoded = NotRun
                         /\ output_file = NoFile)
    /\ [][SoftFailure => (requests' = requests /\ output_file' = output_file /\ pc' = pc)]_vars

\* both subtitles of the title page carry the tag and neither is rated neutral
\* or better: the run ended at the rating filter after two requests
C21_Witness ==
    /\ Len(subtitles) = 2
    /\ tags # <<>>
    /\ Len(TaggedOnPage) = 2
    /\ outcome = Call("download", error("No matching subtitles with 'neutral' or better rating"))
    /\ Len(requests) = 2
    /\ pc = "done"
    /\ output_file = NoFile

\* C28 as claimed: the output file is created or overwritten only in a run
\* that ends with the decoded text written to it; a run that fails after the
\* subtitle was chosen leaves the output path as it was
C28_OutputOnlyOnSuccess ==
    output_file # NoFile
        => /\ outcome.kind = "ok"
           /\ decoded.kind = "ok"
           /\ output_file.content = utf_8_encode(decoded.value.text)

(***************************************************************************)
(* Properties of the language argument (SpecLanguage)                      *)
(***************************************************************************)
\* the numeric IDs of the origin's table that have no language code
CodelessIds == {3, 6, 7, 12, 15, 24}

\* the numeric IDs and the member names of the language table
TableIds   == {mem[2] : mem \in LANGUAGES}
TableNames == {mem[1] : mem \in LANGUAGES}

\* the argument is a number
IsNumber(c) == int(c).kind = "ok"

\* C22 as claimed: arg_language given one of the IDs without a language code
\* as a string returns an entry with that id, and no language code leads to
\* such an id
C22_CodelessIdAccepted ==
    language.op = "arg_language" =>
        /\ (IsNumber(argument) /\ int(argument).value \in CodelessIds)
              => /\ language.kind = "ok"
                 /\ language.value.id = int(argument).value
        /\ (~IsNumber(argument) /\ language.kind = "ok")
              => language.value.id \notin CodelessIds

\* the ISO 639 entries the code c names: by its ISO 639-1 code when c has two
\* characters, by its ISO 639-2/B code otherwise
NamedBy(c) == {l \in ISO639 : c # <<>> /\ (IF Len(c) = 2 THEN l.part1 = c ELSE l.part2b = c)}

\* the argument resolves to an entry of the language table: the special code
\* pt-br, a numeric ID of the table, or an ISO code of a language whose code is
\* a name of the table
Resolves(c) ==
    \/ c = <<"p", "t", "-", "b", "r">>
    \/ IsNumber(c) /\ int(c).value \in TableIds
    \/ \E l \in NamedBy(c) :
          Upper(IF l.part1 # <<>> THEN l.part1 ELSE l.part2b) \in TableNames

\* C23 as claimed: for an argument that does not resolve to an entry of the
\* language table arg_language fails with argparse.ArgumentTypeError and with
\* no other error; for one that resolves it returns a record whose id is a
\* numeric ID of the table
C23_RejectsWithArgumentTypeError ==
    language.op = "arg_language" =>
        IF Resolves(argument)
        THEN language.kind = "ok" /\ language.value.id \in TableIds
        ELSE language.kind = "ArgumentTypeError"

(***************************************************************************)
(* Properties of Subscene.download (SpecApi)                               *)
(***************************************************************************)
\* positions of the slashes of the path of the subtitle page URL
Slashes == {i \in 1..Len(subtitle_url.path) : subtitle_url.path[i] = "/"}

\* the title page URL of the subtitle page URL: its path up to the third
\* slash, the whole path when it has fewer
TitlePage ==
    LET third == {i \in Slashes : Cardinality({j \in Slashes : j < i}) = 2}
    IN  SiteUrl(IF third = {}
                THEN subtitle_url.path
                ELSE SubSeq(subtitle_url.path, 1, SetMin(third) - 1))

Downloaded == outcome.op = "Subscene.download"

\* C24 as claimed: Subscene.download requests the subtitle page first, with
\* the title page URL as Referer, and then, only when a download link was
\* extracted, the link, with the subtitle page URL as Referer; for a page
\* without a download link it returns None after that one request and
\* fetches no archive
C24_RequestOrder ==
    Downloaded =>
        /\ Len(requests) >= 1
        /\ requests[1] = Get(subtitle_url, TitlePage)
        /\ parsed["SubtitlePageParser"].kind = "ok"
              => /\ Len(requests) = 2
                 /\ requests[2] = Get(parsed["SubtitlePageParser"].value, subtitle_url)
        /\ parsed["SubtitlePageParser"].kind # "ok"
              => Len(requests) = 1 /\ archive = <<>> /\ decoded = NotRun
        /\ (~HasThrottlingPhrase(html) /\ Len(html.download) = 0)
              => outcome.kind = "None" /\ Len(requests) = 1

(***************************************************************************)
(* Properties of the legacy title page parser (SpecLegacy)                 *)
(***************************************************************************)
\* get_subtitle_url returns a URL
ReturnsUrl == get_subtitle_url(self_subtitle, source).kind = "ok"

\* C29 as claimed: whenever get_subtitle_url returns a URL, the url, the
\* rating and the name of the subtitle were read in the same table row, and
\* once a row has been accepted later events do not change the selection
C29_SelectionFromOneRow ==
    /\ [](ReturnsUrl => (origin.url = origin.rating /\ origin.rating = origin.name))
    /\ [][accepted(self_subtitle, source) => self_subtitle' = self_subtitle]_vars

====
